---- MODULE Spec2Model ----
(***************************************************************************)
(* pgstratify (pgvacman): storage-parameter stratification for PostgreSQL. *)
(*                                                                         *)
(* The module models                                                       *)
(*   - the match/rule resolution queries of queries/queries.go             *)
(*     (TablesTempTab .. RuleMatchDisplayModeQuery),                       *)
(*   - DBInterface.UpdateTableOptions (lock selection, per-parameter       *)
(*     nested transactions, commit),                                       *)
(*   - the two-phase scheduler of main().                                  *)
(*                                                                         *)
(* A Go *string is modelled as a sequence of length 0 (nil) or 1.          *)
(***************************************************************************)
EXTENDS Integers, Sequences, FiniteSets, TLC

VARIABLES
    \* configuration (ConfigFile and command-line options)
    matchgroups,    \* []ConfigMatchgroup, in config order
    rulesets,       \* map[string]ConfigRuleset
    displaymode,    \* --display-matches
    dryrun,         \* --dry-run
    \* the database
    pg_class,       \* catalog rows of the connected database
    pg_class0,      \* the catalog as it was when the run started
    \* the sequential pipeline: GetTableMatches, then UpdateTableOptions per match
    pc,             \* "start" | "matched" | "applied" | "rerun" | "exit"
    temptables,     \* pg_temp.tables as GetTableMatches built it
    tablematches,   \* result of GetTableMatches
    pending,        \* table matches not yet handed to UpdateTableOptions
    cur,            \* the match UpdateTableOptions is working on (0 or 1 element)
    waitmode,       \* WaitModeWait | WaitModeNowait of the current call
    timeout,        \* lock timeout of the current call (seconds, -1 = unset)
    locksql,        \* the lock statement issued by the current call
    locktimeout,    \* lock_timeout set in the current transaction (0 or 1 element)
    txstate,        \* "none" | "open" | "locked"
    keysleft,       \* sorted keys still to be altered by the current call
    result,         \* SettingSuccess of the current call
    results,        \* finished calls: [Match, SettingSuccess, Err]
    rerun,          \* result of GetTableMatches when run again after the applies
    displayed,      \* what MatchDisplay printed
    exitcode,       \* os.Exit status (0 or 1 element)
    callmodes,      \* the <<waitmode, timeout>> pairs the calls of this run may use
    txopts,         \* reloptions of the locked table as the open transaction sees them
    \* the two-phase scheduler of main(): a record of the channels, the goroutines'
    \* positions and what each table went through; Nil while main has not got there
    sched,
    \* the body of the workers' loops statement by statement: the mutexes, the
    \* lines written to the log, the run statistics and the watchdogs of a pass;
    \* Nil in the specifications that take a worker's call and its handling as one step
    workerloop,
    \* one waiting lock attempt of the applier that cancels the lock statement from
    \* a timeout goroutine: the worker, the goroutine, the timeout and what the
    \* server's session is doing; Nil in the other specifications
    lockcall

pipevars == <<matchgroups, rulesets, displaymode, dryrun, pg_class, pg_class0, pc,
              temptables, tablematches, pending, cur, waitmode, timeout, locksql, locktimeout,
              txstate, keysleft, result, results, rerun, displayed, exitcode,
              callmodes, txopts>>
schedvars == <<sched, workerloop, lockcall>>
vars == <<pipevars, schedvars>>

Nil == <<>>
Some(v) == <<v>>

Min(S) == CHOOSE x \in S : \A y \in S : x <= y
Max(S) == CHOOSE x \in S : \A y \in S : x >= y

WaitModeWait == 1
WaitModeNowait == 2

(***************************************************************************)
(* PostgreSQL's regular-expression operators ~ and ~* on the patterns the  *)
(* configurations of this model use: the empty pattern and ".*" match      *)
(* every string, "^lit$" matches exactly lit; ~* ignores case.             *)
(***************************************************************************)
Lower(s) ==
    CASE s = "S1" -> "s1"
      [] s = "BOB" -> "bob"
      [] OTHER -> s

Literal(re) ==
    CASE re = "^s1$" -> "s1"
      [] re = "^S1$" -> "S1"
      [] re = "^t1$" -> "t1"
      [] re = "^bob$" -> "bob"
      [] re = "^BOB$" -> "BOB"

RegexMatch(text, re, icase) ==
    IF re \in {"", ".*"} THEN TRUE
    ELSE IF icase THEN Lower(text) = Lower(Literal(re))
    ELSE text = Literal(re)

(***************************************************************************)
(* queries.TablesTempTab                                                   *)
(***************************************************************************)
\* tables_sub1: row_number() over () numbers the matchgroups in config order
TablesSub1(mg) ==
    { [tablematchnum |-> i, schemare |-> mg[i].Schema, tablere |-> mg[i].Table,
       ownerre |-> mg[i].Owner, case_sensitive |-> mg[i].CaseSensitive,
       ruleset |-> mg[i].Ruleset] : i \in DOMAIN mg }

\* the join condition of pg_class c with tables_sub1 ts1
TablesJoinOn(c, ts1) ==
    \/ /\ ~ts1.case_sensitive
       /\ RegexMatch(c.relnamespace, ts1.schemare, TRUE)
       /\ RegexMatch(c.relname, ts1.tablere, TRUE)
       /\ RegexMatch(c.relowner, ts1.ownerre, TRUE)
    \/ /\ ts1.case_sensitive
       /\ RegexMatch(c.relnamespace, ts1.schemare, FALSE)
       /\ RegexMatch(c.relname, ts1.tablere, FALSE)
       /\ RegexMatch(c.relowner, ts1.ownerre, FALSE)

\* the joined rows that pass the where clause
TablesJoin(mg, cat) ==
    { j \in cat \X TablesSub1(mg) :
        /\ TablesJoinOn(j[1], j[2])
        /\ j[1].relpersistence = "p"
        /\ j[1].relkind \in {"r", "m"} }

\* variant: the last matching matchgroup wins
MinTableMatchNumLast(j, joined) ==
    Max({ k[2].tablematchnum : k \in { x \in joined :
            /\ x[1].relnamespace = j[1].relnamespace
            /\ x[1].relname = j[1].relname } })

\* variant: the window skips matchgroups without a ruleset (fall-through)
MinTableMatchNumFallThrough(j, joined) ==
    LET part == { x \in joined : /\ x[1].relnamespace = j[1].relnamespace
                                 /\ x[1].relname = j[1].relname }
        withrs == { x \in part : x[2].ruleset # "" }
    IN  Min({ k[2].tablematchnum : k \in IF withrs = {} THEN part ELSE withrs })

\* min(ts1.tablematchnum) over (partition by c.relnamespace, c.relname)
MinTableMatchNum(j, joined) ==
    Min({ k[2].tablematchnum : k \in { x \in joined :
            /\ x[1].relnamespace = j[1].relnamespace
            /\ x[1].relname = j[1].relname } })

TablesTempTab(mg, cat) ==
    LET joined == TablesJoin(mg, cat)
        tables_a == { j \in joined : j[2].tablematchnum = MinTableMatchNum(j, joined) }
    IN  { [tablematchnum |-> j[2].tablematchnum, reloid |-> j[1].oid,
           relnamespace |-> j[1].relnamespace, relname |-> j[1].relname,
           owner |-> j[1].relowner, reltuples |-> j[1].reltuples,
           relkind |-> j[1].relkind, ruleset |-> j[2].ruleset] : j \in tables_a }

(***************************************************************************)
(* queries.TableParametersTempTab: reloptions is an array of 'name=value'  *)
(* texts, split at '='; the model keeps each element as <<name, value>>.   *)
(***************************************************************************)
TableParametersTempTab(tables, cat) ==
    UNION { { [reloid |-> c.oid, parameter |-> o[1], setting |-> o[2]] :
                o \in c.reloptions } :
            c \in { x \in cat : x.oid \in { t.reloid : t \in tables } } }

(***************************************************************************)
(* queries.RulesetsSubTempTab, RulesetsTempTab, RulesetsSettingsTempTab    *)
(***************************************************************************)
\* variant: rules numbered in the order the configuration lists them
RuleNumByConfigOrder(rs, i) == i

\* row_number() over (partition by ruleset order by minrows asc)
RuleNum(rs, i) ==
    Cardinality({ j \in DOMAIN rs : rs[j].Minrows < rs[i].Minrows }) + 1

RulesetsSubTempTab(rsets) ==
    UNION { { [ruleset |-> name, rulenum |-> RuleNum(rsets[name], i),
               minrows |-> rsets[name][i].Minrows,
               settingsjson |-> rsets[name][i].Settings] :
                i \in DOMAIN rsets[name] } : name \in DOMAIN rsets }

RulesetsTempTab(sub) ==
    { [ruleset |-> r.ruleset, rulenum |-> r.rulenum, minrows |-> r.minrows] : r \in sub }

\* jsonb_object_keys(settingsjson) as parameter, settingsjson->>parameter as setting
RulesetsSettingsTempTab(sub) ==
    UNION { { [ruleset |-> r.ruleset, rulenum |-> r.rulenum, parameter |-> p,
               setting |-> r.settingsjson[p]] : p \in DOMAIN r.settingsjson } : r \in sub }

(***************************************************************************)
(* queries.RuleMatchQuery and queries.RuleMatchDisplayModeQuery            *)
(***************************************************************************)
\* rulematch: tables joined with rulesets on the ruleset name and the threshold
RuleMatchBelow(t, r) == t.ruleset = r.ruleset /\ t.reltuples > r.minrows

RuleMatchOn(t, r) == t.ruleset = r.ruleset /\ t.reltuples >= r.minrows

RuleMatch(tables, rs) ==
    { [ruleset |-> j[2].ruleset, tablematchnum |-> j[1].tablematchnum,
       rulenum |-> j[2].rulenum, reloid |-> j[1].reloid,
       relnamespace |-> j[1].relnamespace, relname |-> j[1].relname,
       owner |-> j[1].owner, reltuples |-> j[1].reltuples, relkind |-> j[1].relkind] :
        j \in { x \in tables \X rs : RuleMatchOn(x[1], x[2]) } }

\* effective_settings_sub1: the settings of every active rule
EffectiveSettingsSub1(rm, rss) ==
    { [tablematchnum |-> j[1].tablematchnum, rulenum |-> j[1].rulenum,
       reloid |-> j[1].reloid, relnamespace |-> j[1].relnamespace,
       relname |-> j[1].relname, owner |-> j[1].owner, reltuples |-> j[1].reltuples,
       relkind |-> j[1].relkind, parameter |-> j[2].parameter, setting |-> j[2].setting] :
        j \in { x \in rm \X rss : x[1].ruleset = x[2].ruleset /\ x[1].rulenum = x[2].rulenum } }

\* the group of effective_settings_sub1 a row belongs to in the max(rulenum) subquery
SameSettingGroup(e, f) ==
    /\ e.tablematchnum = f.tablematchnum
    /\ e.reloid = f.reloid
    /\ e.relnamespace = f.relnamespace
    /\ e.relname = f.relname
    /\ e.owner = f.owner
    /\ e.parameter = f.parameter

\* variant: the lowest active rule wins
MaskingRuleNumLowest(e, ess1) ==
    Min({ f.rulenum : f \in { x \in ess1 : SameSettingGroup(e, x) } })

\* max(rulenum) ... group by tablematchnum, reloid, relnamespace, relname, owner, parameter
MaskingRuleNum(e, ess1) ==
    Max({ f.rulenum : f \in { x \in ess1 : SameSettingGroup(e, x) } })

\* effective_settings_sub2: per parameter, the setting of the highest active rule
EffectiveSettingsSub2(ess1) ==
    { [reloid |-> e.reloid, relnamespace |-> e.relnamespace, relname |-> e.relname,
       owner |-> e.owner, reltuples |-> e.reltuples, relkind |-> e.relkind,
       tablematchnum |-> e.tablematchnum, parameter |-> e.parameter,
       setting |-> e.setting] :
        e \in { x \in ess1 : x.rulenum = MaskingRuleNum(x, ess1) } }

\* tparams.setting of the left outer join with tableparameters (NULL without a row)
OldSetting(ess, tparams) ==
    LET rows == { tp \in tparams : tp.reloid = ess.reloid /\ tp.parameter = ess.parameter }
    IN  IF rows = {} THEN Nil ELSE Some((CHOOSE tp \in rows : TRUE).setting)

\* variant: every resolved setting is kept, whatever the table has
EffectiveSettingsWhereAll(ess, tparams) == TRUE

\* variant: a reset is emitted whether or not the table has the parameter
EffectiveSettingsWhereResetAlways(ess, tparams) ==
    \/ ess.setting = Nil
    \/ /\ ess.setting # Nil
       /\ ~\E tp \in tparams : /\ tp.reloid = ess.reloid
                               /\ tp.parameter = ess.parameter
                               /\ Some(tp.setting) = ess.setting

\* the where clause of effective_settings in RuleMatchQuery
EffectiveSettingsWhere(ess, tparams) ==
    \/ /\ ess.setting = Nil
       /\ \E tp \in tparams : tp.reloid = ess.reloid /\ tp.parameter = ess.parameter
    \/ /\ ess.setting # Nil
       /\ ~\E tp \in tparams : /\ tp.reloid = ess.reloid
                               /\ tp.parameter = ess.parameter
                               /\ Some(tp.setting) = ess.setting

EffectiveSettingsRow(ess, tparams) ==
    [reloid |-> ess.reloid, relnamespace |-> ess.relnamespace, relname |-> ess.relname,
     owner |-> ess.owner, reltuples |-> ess.reltuples, relkind |-> ess.relkind,
     tablematchnum |-> ess.tablematchnum, parameter |-> ess.parameter,
     oldsetting |-> OldSetting(ess, tparams), newsetting |-> ess.setting]

\* effective_settings of RuleMatchQuery: only the settings that differ
EffectiveSettings(ess2, tparams) ==
    { EffectiveSettingsRow(ess, tparams) :
        ess \in { x \in ess2 : EffectiveSettingsWhere(x, tparams) } }

\* effective_settings of RuleMatchDisplayModeQuery: no where clause
EffectiveSettingsDisplayMode(ess2, tparams) ==
    { EffectiveSettingsRow(ess, tparams) : ess \in ess2 }

\* the final select: one row per relation, json_object_agg over its parameters
\* (format('%I.%I', relnamespace, relname) is kept as the pair of names)
GroupRows(es) ==
    { [reloid |-> g[1], relkind |-> g[2], quotedfullname |-> <<g[3], g[4]>>,
       owner |-> g[5], reltuples |-> g[6], tablematchnum |-> g[7],
       jsonout |-> [ p \in { e.parameter : e \in { x \in es :
                               <<x.reloid, x.relkind, x.relnamespace, x.relname,
                                 x.owner, x.reltuples, x.tablematchnum>> = g } } |->
                     LET e == CHOOSE x \in es :
                                /\ <<x.reloid, x.relkind, x.relnamespace, x.relname,
                                     x.owner, x.reltuples, x.tablematchnum>> = g
                                /\ x.parameter = p
                     IN  [oldsetting |-> e.oldsetting, newsetting |-> e.newsetting] ] ] :
        g \in { <<e.reloid, e.relkind, e.relnamespace, e.relname, e.owner, e.reltuples,
                  e.tablematchnum>> : e \in es } }

EffectiveSettingsSub2Of(tables, rsets) ==
    LET sub == RulesetsSubTempTab(rsets)
    IN  EffectiveSettingsSub2(
            EffectiveSettingsSub1(RuleMatch(tables, RulesetsTempTab(sub)),
                                  RulesetsSettingsTempTab(sub)))

RuleMatchQuery(tables, tparams, rsets) ==
    GroupRows(EffectiveSettings(EffectiveSettingsSub2Of(tables, rsets), tparams))

RuleMatchDisplayModeQuery(tables, tparams, rsets) ==
    GroupRows(EffectiveSettingsDisplayMode(EffectiveSettingsSub2Of(tables, rsets), tparams))

(***************************************************************************)
(* DBInterface.GetTableMatches: the temporary tables, then the query; one  *)
(* TableMatch per row.                                                     *)
(***************************************************************************)
TableMatchOfRow(row, mg) ==
    [Reloid |-> row.reloid, Relkind |-> row.relkind,
     QuotedFullName |-> row.quotedfullname, Owner |-> row.owner,
     Reltuples |-> row.reltuples, MatchgroupNum |-> row.tablematchnum,
     Parameters |-> [ p \in DOMAIN row.jsonout |->
                        [OldSetting |-> row.jsonout[p].oldsetting,
                         NewSetting |-> row.jsonout[p].newsetting] ]]

\* the query GetTableMatches sends: the display-mode query for --display-matches
MatchQuery(display, tabs, tparams, rsets) ==
    IF display THEN RuleMatchDisplayModeQuery(tabs, tparams, rsets)
    ELSE RuleMatchQuery(tabs, tparams, rsets)

GetTableMatchesOf(mg, rsets, cat, display) ==
    LET tabs == TablesTempTab(mg, cat)
        tparams == TableParametersTempTab(tabs, cat)
    IN  { TableMatchOfRow(row, mg) : row \in MatchQuery(display, tabs, tparams, rsets) }

(***************************************************************************)
(* Strings as Go sees them: the bytes of the parameter names the model     *)
(* uses, and the byte order sort.Strings compares them by.                 *)
(***************************************************************************)
Chars(p) ==
    CASE p = "fillfactor" -> <<"f","i","l","l","f","a","c","t","o","r">>
      [] p = "parallel_workers" ->
            <<"p","a","r","a","l","l","e","l","_","w","o","r","k","e","r","s">>
      [] p = "autovacuum_enabled" ->
            <<"a","u","t","o","v","a","c","u","u","m","_","e","n","a","b","l","e","d">>
      [] p = "toast.autovacuum_enabled" ->
            <<"t","o","a","s","t",".","a","u","t","o","v","a","c","u","u","m","_",
              "e","n","a","b","l","e","d">>
      [] p = "vacuum_truncate" ->
            <<"v","a","c","u","u","m","_","t","r","u","n","c","a","t","e">>
      [] p = "user_catalog_table" ->
            <<"u","s","e","r","_","c","a","t","a","l","o","g","_","t","a","b","l","e">>

Ord(c) ==
    CASE c = "." -> 46 [] c = "_" -> 95 [] c = "a" -> 97 [] c = "b" -> 98
      [] c = "c" -> 99 [] c = "d" -> 100 [] c = "e" -> 101 [] c = "f" -> 102
      [] c = "g" -> 103 [] c = "i" -> 105 [] c = "k" -> 107 [] c = "l" -> 108
      [] c = "m" -> 109 [] c = "n" -> 110 [] c = "o" -> 111 [] c = "p" -> 112
      [] c = "r" -> 114 [] c = "s" -> 115 [] c = "t" -> 116 [] c = "u" -> 117
      [] c = "v" -> 118 [] c = "w" -> 119

\* a < b in byte order
RECURSIVE BytesLess(_, _)
BytesLess(a, b) ==
    IF b = <<>> THEN FALSE
    ELSE IF a = <<>> THEN TRUE
    ELSE IF Ord(Head(a)) # Ord(Head(b)) THEN Ord(Head(a)) < Ord(Head(b))
    ELSE BytesLess(Tail(a), Tail(b))

StringLess(p, q) == BytesLess(Chars(p), Chars(q))

\* variant: descending order
SortStringsDescending(keys) ==
    CHOOSE sq \in [1..Cardinality(keys) -> keys] :
        /\ { sq[i] : i \in DOMAIN sq } = keys
        /\ \A i, j \in DOMAIN sq : i < j => StringLess(sq[j], sq[i])

\* sort.Strings over the keys of a map
SortStrings(keys) ==
    CHOOSE sq \in [1..Cardinality(keys) -> keys] :
        /\ { sq[i] : i \in DOMAIN sq } = keys
        /\ \A i, j \in DOMAIN sq : i < j => StringLess(sq[i], sq[j])

(***************************************************************************)
(* The regular expression of UpdateTableOptions,                           *)
(*   autovacuum|(?:toast\.|^)(?:vacuum_|toast_|fillfactor$|parallel_workers$) *)
(* as regexp.MatchString applies it (a match anywhere in the string).      *)
(***************************************************************************)
\* lit occurs in s starting at position i (1-based)
LitAt(s, i, lit) ==
    /\ i >= 1
    /\ i + Len(lit) - 1 <= Len(s)
    /\ SubSeq(s, i, i + Len(lit) - 1) = lit

\* lit occurs in s starting at position i and ends the string
LitAtEnd(s, i, lit) == LitAt(s, i, lit) /\ i + Len(lit) - 1 = Len(s)

\* variant: only names that start with autovacuum are recognised
SharelockREOnlyAutovacuum(s) ==
    LitAt(s, 1, <<"a","u","t","o","v","a","c","u","u","m">>)

SharelockRE(s) ==
    \/ \E i \in 1..Len(s) : LitAt(s, i, <<"a","u","t","o","v","a","c","u","u","m">>)
    \/ \E i \in 1..(Len(s) + 1) :
        /\ \/ LitAt(s, i - 6, <<"t","o","a","s","t",".">>)
           \/ i = 1
        /\ \/ LitAt(s, i, <<"v","a","c","u","u","m","_">>)
           \/ LitAt(s, i, <<"t","o","a","s","t","_">>)
           \/ LitAtEnd(s, i, <<"f","i","l","l","f","a","c","t","o","r">>)
           \/ LitAtEnd(s, i, <<"p","a","r","a","l","l","e","l","_","w","o","r","k","e","r","s">>)

\* variant: one share-lock parameter is enough
UseShareLockAny(keys) == \E key \in keys : SharelockRE(Chars(key))

\* usesharelock: true unless some key of match.Options fails the expression
UseShareLock(keys) == \A key \in keys : SharelockRE(Chars(key))

\* variant: the lock statement is sent without the nowait suffix
LockSQLWaiting(match, mode) ==
    [table |-> match.QuotedFullName,
     lockmode |-> IF UseShareLock(DOMAIN match.Parameters)
                  THEN "share update exclusive" ELSE "access exclusive",
     nowait |-> FALSE]

\* locksql, kept as its parts: the table, the lock mode, the nowait suffix
LockSQL(match, mode) ==
    [table |-> match.QuotedFullName,
     lockmode |-> IF UseShareLock(DOMAIN match.Parameters)
                  THEN "share update exclusive" ELSE "access exclusive",
     nowait |-> (mode = WaitModeNowait)]

\* variant: the result starts with every parameter marked as applied
InitialSettingSuccessApplied(match) ==
    [ i \in 1..Cardinality(DOMAIN match.Parameters) |->
        [Setting |-> SortStrings(DOMAIN match.Parameters)[i], Success |-> TRUE] ]

\* result.SettingSuccess as make([]..., len(match.Options)) leaves it
InitialSettingSuccess(match) ==
    [ i \in 1..Cardinality(DOMAIN match.Parameters) |-> [Setting |-> "", Success |-> FALSE] ]

\* variant: set or reset is chosen by the old setting
AlterSQLByOldSetting(match, key) ==
    IF match.Parameters[key].OldSetting = Nil
    THEN [table |-> match.QuotedFullName, op |-> "reset", parameter |-> key, value |-> Nil]
    ELSE [table |-> match.QuotedFullName, op |-> "set", parameter |-> key,
          value |-> match.Parameters[key].OldSetting]

\* altersql, kept as its parts
AlterSQL(match, key) ==
    IF match.Parameters[key].NewSetting = Nil
    THEN [table |-> match.QuotedFullName, op |-> "reset", parameter |-> key, value |-> Nil]
    ELSE [table |-> match.QuotedFullName, op |-> "set", parameter |-> key,
          value |-> match.Parameters[key].NewSetting]

\* what a successful alter table ... set/reset does to reloptions
ExecAlter(reloptions, sql) ==
    LET others == { o \in reloptions : o[1] # sql.parameter }
    IN  IF sql.op = "reset" THEN others
        ELSE others \cup { <<sql.parameter, sql.value[1]>> }

(***************************************************************************)
(* DBInterface.UpdateTableOptions, one action per statement it sends       *)
(***************************************************************************)
RelOf(cat, match) == CHOOSE c \in cat : c.oid = match.Reloid

\* what the lock statement can answer: the lock, SQLSTATE 55P03 at once (nowait),
\* 55P03 "canceling statement due to lock timeout" (lock_timeout set), another error
LockAnswers(sql, lt) ==
    {"ok", "error"}
    \cup (IF sql.nowait THEN {"lock_not_available"} ELSE {})
    \cup (IF ~sql.nowait /\ lt # Nil THEN {"lock_timeout"} ELSE {})

\* variant: the message of SQLSTATE 55P03 is not looked at
LockErrorByCodeOnly(answer) ==
    CASE answer \in {"lock_not_available", "lock_timeout"} -> "AcquireLockError"
      [] OTHER -> "error"

\* the error UpdateTableOptions returns for a failed lock statement
LockError(answer) ==
    CASE answer = "lock_not_available" -> "AcquireLockError"
      [] answer = "lock_timeout" -> "AcquireLockError (wait timed out)"
      [] OTHER -> "error"

\* variant: only the error of a nowait call is taken for a lock error
IsAcquireLockErrorImmediateOnly(err) == err = "AcquireLockError"

\* errors.As(err, &alerr)
IsAcquireLockError(err) == err \in {"AcquireLockError", "AcquireLockError (wait timed out)"}

\* variant: lock_timeout is set in wait mode whatever the timeout is
LockTimeoutAlways(mode, t) == IF mode = WaitModeWait THEN Some(t) ELSE Nil

\* set lock_timeout is sent only in wait mode and only for a timeout of zero or more
LockTimeout(mode, t) == IF mode = WaitModeWait /\ t >= 0 THEN Some(t) ELSE Nil

\* BeginTx, and set lock_timeout in wait mode with a timeout
UpdateTableOptionsBegin ==
    /\ pc = "matched"
    /\ ~displaymode
    /\ cur = Nil
    /\ \E m \in pending, cm \in callmodes, ok \in BOOLEAN :
        /\ pending' = pending \ {m}
        /\ waitmode' = cm[1]
        /\ timeout' = cm[2]
        /\ result' = InitialSettingSuccess(m)
        /\ locksql' = LockSQL(m, cm[1])
        /\ IF ok
           THEN /\ cur' = Some(m)
                /\ txstate' = "open"
                /\ locktimeout' = LockTimeout(cm[1], cm[2])
                /\ UNCHANGED <<results, pc, exitcode>>
           ELSE /\ cur' = Nil
                /\ txstate' = "none"
                /\ locktimeout' = Nil
                /\ results' = results \cup
                       {[Match |-> m, SettingSuccess |-> result', Err |-> "error"]}
                /\ pc' = "exit"
                /\ exitcode' = Some(1)
    /\ UNCHANGED <<matchgroups, rulesets, displaymode, dryrun, pg_class, pg_class0,
                   temptables, tablematches, keysleft, rerun, displayed, callmodes, txopts, schedvars>>

\* variant: the error of the lock statement is returned with the transaction
\* left as it is
AfterRollbackStillOpen == "open"

\* the outer transaction after tx.Rollback(bgctx)
AfterRollback == "none"

\* the lock statement; on an error the transaction is rolled back
UpdateTableOptionsLock ==
    /\ pc = "matched"
    /\ cur # Nil
    /\ txstate = "open"
    /\ \E answer \in LockAnswers(locksql, locktimeout) :
        IF answer = "ok"
        THEN /\ txstate' = "locked"
             /\ txopts' = RelOf(pg_class, cur[1]).reloptions
             /\ keysleft' = SortStrings(DOMAIN cur[1].Parameters)
             /\ UNCHANGED <<cur, results, locktimeout, pc, exitcode>>
        ELSE /\ txstate' = AfterRollback
             /\ locktimeout' = Nil
             /\ cur' = Nil
             /\ results' = results \cup
                    {[Match |-> cur[1], SettingSuccess |-> result, Err |-> LockError(answer)]}
             /\ pc' = IF IsAcquireLockError(LockError(answer)) THEN pc ELSE "exit"
             /\ exitcode' = IF IsAcquireLockError(LockError(answer)) THEN exitcode ELSE Some(1)
             /\ UNCHANGED <<txopts, keysleft>>
    /\ UNCHANGED <<matchgroups, rulesets, displaymode, dryrun, pg_class, pg_class0,
                   temptables, tablematches, pending, waitmode, timeout, locksql, result, rerun,
                   displayed, callmodes, schedvars>>

\* variant: the loop over the keys stops at the first parameter that fails
NextKeysStopOnFailure(keys, succeeds) == IF succeeds THEN Tail(keys) ELSE <<>>

\* for _, val := range sortedkeys: the next key follows whatever the outcome was
NextKeys(keys, succeeds) == Tail(keys)

\* one parameter: alter table in a nested transaction, committed or rolled back
UpdateTableOptionsAlter ==
    /\ pc = "matched"
    /\ cur # Nil
    /\ txstate = "locked"
    /\ keysleft # <<>>
    /\ LET val == Head(keysleft)
           altersql == AlterSQL(cur[1], val)
       IN  \E succeeds \in (IF dryrun THEN {TRUE} ELSE BOOLEAN) :
            /\ txopts' = IF ~dryrun /\ succeeds THEN ExecAlter(txopts, altersql) ELSE txopts
            /\ result' = Append(result, [Setting |-> val, Success |-> succeeds])
            /\ keysleft' = NextKeys(keysleft, succeeds)
    /\ UNCHANGED <<matchgroups, rulesets, displaymode, dryrun, pg_class, pg_class0, pc,
                   temptables, tablematches, pending, cur, waitmode, timeout, locksql, locktimeout,
                   txstate, results, rerun, displayed, exitcode, callmodes, schedvars>>

\* variant: the transaction is ended without keeping its changes
CommittedNothing(cat, match, txo) == cat

\* tx.Commit: what the transaction did to the locked table becomes the catalog
Committed(cat, match, txo) ==
    { IF c.oid = match.Reloid THEN [c EXCEPT !.reloptions = txo] ELSE c : c \in cat }

\* the outer commit; a failed commit is rolled back and returned as an error
UpdateTableOptionsCommit ==
    /\ pc = "matched"
    /\ cur # Nil
    /\ txstate = "locked"
    /\ keysleft = <<>>
    /\ \E ok \in BOOLEAN :
        /\ pg_class' = IF ok THEN Committed(pg_class, cur[1], txopts) ELSE pg_class
        /\ results' = results \cup
               {[Match |-> cur[1], SettingSuccess |-> result,
                 Err |-> IF ok THEN "none" ELSE "error"]}
        /\ pc' = IF ok THEN pc ELSE "exit"
        /\ exitcode' = IF ok THEN exitcode ELSE Some(1)
    /\ txstate' = "none"
    /\ locktimeout' = Nil
    /\ cur' = Nil
    /\ UNCHANGED <<matchgroups, rulesets, displaymode, dryrun, pg_class0, temptables, tablematches,
                   pending, waitmode, timeout, locksql, keysleft, result, rerun,
                   displayed, callmodes, txopts, schedvars>>

(***************************************************************************)
(* main(), as far as the resolution goes: GetTableMatches, the display of  *)
(* the matches, and the next run of the program on the resulting catalog.  *)
(***************************************************************************)
GetTableMatches ==
    /\ pc = "start"
    /\ temptables' = TablesTempTab(matchgroups, pg_class)
    /\ tablematches' = GetTableMatchesOf(matchgroups, rulesets, pg_class, displaymode)
    /\ pending' = tablematches'
    /\ pc' = "matched"
    /\ UNCHANGED <<matchgroups, rulesets, displaymode, dryrun, pg_class, pg_class0, cur,
                   waitmode, timeout, locksql, locktimeout, txstate, keysleft, result,
                   results, rerun, displayed, exitcode, callmodes, txopts, schedvars>>

\* MatchDisplay prints one line per TableMatch, then os.Exit(0)
MatchDisplay ==
    /\ pc = "matched"
    /\ displaymode
    /\ displayed' = { [MatchgroupNum |-> tm.MatchgroupNum,
                       QuotedFullName |-> tm.QuotedFullName,
                       Owner |-> tm.Owner, Reltuples |-> tm.Reltuples] : tm \in tablematches }
    /\ exitcode' = Some(0)
    /\ pc' = "exit"
    /\ UNCHANGED <<matchgroups, rulesets, displaymode, dryrun, pg_class, pg_class0,
                   temptables, tablematches, pending, cur, waitmode, timeout, locksql, locktimeout,
                   txstate, keysleft, result, results, rerun, callmodes, txopts, schedvars>>

\* every match has had its call: the run is over
RunDone ==
    /\ pc = "matched"
    /\ ~displaymode
    /\ cur = Nil
    /\ pending = {}
    /\ exitcode' = Some(0)
    /\ pc' = "applied"
    /\ UNCHANGED <<matchgroups, rulesets, displaymode, dryrun, pg_class, pg_class0,
                   temptables, tablematches, pending, cur, waitmode, timeout, locksql, locktimeout,
                   txstate, keysleft, result, results, rerun, displayed, callmodes,
                   txopts, schedvars>>

\* the program is run again, same configuration, on the catalog the first run left
RunAgain ==
    /\ pc = "applied"
    /\ rerun' = GetTableMatchesOf(matchgroups, rulesets, pg_class, displaymode)
    /\ pc' = "rerun"
    /\ UNCHANGED <<matchgroups, rulesets, displaymode, dryrun, pg_class, pg_class0,
                   temptables, tablematches, pending, cur, waitmode, timeout, locksql, locktimeout,
                   txstate, keysleft, result, results, displayed, exitcode, callmodes,
                   txopts, schedvars>>

NextPipe ==
    \/ GetTableMatches
    \/ MatchDisplay
    \/ UpdateTableOptionsBegin
    \/ UpdateTableOptionsLock
    \/ UpdateTableOptionsAlter
    \/ UpdateTableOptionsCommit
    \/ RunDone
    \/ RunAgain

(***************************************************************************)
(* main(): the two passes over the table matches.  Channels are unbuffered, *)
(* so a send and its receive are one step.  sched has the fields            *)
(*   jobs, skiplocked, locktimeout   the options                            *)
(*   phase                           1 (nowait pass) or 2 (wait pass)       *)
(*   queue, iterclosed               what the matchiter goroutine has left   *)
(*                                   to send, and whether it closed matchiter*)
(*   workers                         per connection [state, m]: "recv" at    *)
(*                                   range matchiter, "update" before the    *)
(*                                   call, "send" at lockpendingrcv <- m,    *)
(*                                   "closed" after close(donechan),         *)
(*                                   "connclosed" after conn.Close()         *)
(*   waiting                         the donechan main is blocked on         *)
(*   mainpc                          "wait" | "closercv" | "recvpending" |   *)
(*                                   "branch" | "stats"                      *)
(*   rcvclosed, collector, lockpending   the collector goroutine             *)
(*   mainpending                     lockpending as main received it         *)
(*   exit                            os.Exit status (0 or 1 element)         *)
(*   calls, reported                 per table: the errors its calls         *)
(*                                   returned, by phase, and what was logged *)
(*   altered                         per table: a call ran its alter table   *)
(*                                   statements and returned without error   *)
(*   closes                          per connection: the calls of Close()    *)
(*   connof                          per worker: the connection it was       *)
(*                                   started with                            *)
(***************************************************************************)
Alive == sched # Nil /\ sched.exit = Nil

\* variant: one connection for every job
ConnectionsPerJob(k, j) == j

\* variant: every worker is started with the connection main opened first
ConnectionOfFirst(w) == 1

\* for _, val := range connections { go func(conn ...) {...}(val, ...) }: the
\* w-th worker is started with the w-th connection
ConnectionOf(w) == w

\* a connection main made with new(DBInterface): conn is nil
ZeroStruct(c) == dryrun /\ c >= 2

\* len(connections) after the allocation loop
Connections(k, j) == Max({1, Min({k, j})})

\* the error UpdateTableParameters can return for a call in this mode
UpdateTableParametersErrors(mode, lt) ==
    {"none"} \cup
    { LockError(a) :
        a \in LockAnswers([nowait |-> mode = WaitModeNowait], LockTimeout(mode, lt))
              \ {"ok"} }

\* variant: a value that was received stays at the head of what is sent
MatchIterRestKeep(queue) == queue

\* what the iterator goroutine has left to send once matchiter <- v has returned:
\* the loop goes on with the next element
MatchIterRest(queue) == Tail(queue)

\* matchiter <- v in the iterator goroutine, received by a worker at range matchiter
MatchIterSend(w) ==
    /\ Alive
    /\ sched.workers[w].state = "recv"
    /\ sched.queue # <<>>
    /\ sched' = [sched EXCEPT !.workers[w] = [state |-> "update", m |-> Head(sched.queue)],
                              !.queue = MatchIterRest(@)]
    /\ UNCHANGED <<pipevars, workerloop, lockcall>>

\* close(matchiter) after the last send
MatchIterClose ==
    /\ Alive
    /\ sched.queue = <<>>
    /\ ~sched.iterclosed
    /\ sched' = [sched EXCEPT !.iterclosed = TRUE]
    /\ UNCHANGED <<pipevars, workerloop, lockcall>>

\* the dryrun argument of the call: *opt_dry_run in the first pass, false in the second
DryRunArg(phase) == IF phase = 1 THEN dryrun ELSE FALSE

\* variant: a table whose lock failed is sent to lockpendingrcv in every mode
Phase1WorkerForwardAlways(w, err) ==
    LET m == sched.workers[w].m
        called == [sched EXCEPT !.calls[m] = Append(@, <<1, err>>),
                                !.altered[m] = @ \/ (err = "none" /\ ~DryRunArg(1))]
    IN  IF err = "none"
        THEN [called EXCEPT !.workers[w] = [state |-> "recv", m |-> 0],
                            !.reported[m] = @ \cup {"result"}]
        ELSE IF IsAcquireLockError(err)
        THEN [called EXCEPT !.workers[w] = [state |-> "send", m |-> m]]
        ELSE [called EXCEPT !.reported[m] = @ \cup {"fatal"}, !.exit = Some(1)]

\* what a pass-1 worker does with the error of its nowait call
Phase1Worker(w, err) ==
    LET m == sched.workers[w].m
        called == [sched EXCEPT !.calls[m] = Append(@, <<1, err>>),
                                !.altered[m] = @ \/ (err = "none" /\ ~DryRunArg(1))]
    IN  IF err = "none"
        THEN [called EXCEPT !.workers[w] = [state |-> "recv", m |-> 0],
                            !.reported[m] = @ \cup {"result"}]
        ELSE IF IsAcquireLockError(err)
        THEN IF sched.skiplocked
             THEN [called EXCEPT !.workers[w] = [state |-> "recv", m |-> 0],
                                 !.reported[m] = @ \cup {"result", "warn"}]
             ELSE [called EXCEPT !.workers[w] = [state |-> "send", m |-> m]]
        ELSE [called EXCEPT !.reported[m] = @ \cup {"fatal"}, !.exit = Some(1)]

\* variant: a lock error of the wait call ends the run like any other error
Phase2WorkerLockFatal(w, err) ==
    LET m == sched.workers[w].m
        called == [sched EXCEPT !.calls[m] = Append(@, <<2, err>>),
                                !.altered[m] = @ \/ (err = "none" /\ ~DryRunArg(2))]
    IN  IF err = "none"
        THEN [called EXCEPT !.workers[w] = [state |-> "recv", m |-> 0],
                            !.reported[m] = @ \cup {"result"}]
        ELSE [called EXCEPT !.reported[m] = @ \cup {"fatal"}, !.exit = Some(1)]

\* what a pass-2 worker does with the error of its wait call
Phase2Worker(w, err) ==
    LET m == sched.workers[w].m
        called == [sched EXCEPT !.calls[m] = Append(@, <<2, err>>),
                                !.altered[m] = @ \/ (err = "none" /\ ~DryRunArg(2))]
    IN  IF err = "none"
        THEN [called EXCEPT !.workers[w] = [state |-> "recv", m |-> 0],
                            !.reported[m] = @ \cup {"result"}]
        ELSE IF IsAcquireLockError(err)
        THEN [called EXCEPT !.workers[w] = [state |-> "recv", m |-> 0],
                            !.reported[m] = @ \cup {"warn"}]
        ELSE [called EXCEPT !.reported[m] = @ \cup {"fatal"}, !.exit = Some(1)]

\* conn.UpdateTableParameters(m, ...) in a worker and the handling of its result
WorkerUpdate(w) ==
    /\ Alive
    /\ sched.workers[w].state = "update"
    /\ \/ /\ sched.phase = 1
          /\ \E err \in UpdateTableParametersErrors(WaitModeNowait, 0) :
                sched' = Phase1Worker(w, err)
       \/ /\ sched.phase = 2
          /\ \E err \in UpdateTableParametersErrors(WaitModeWait, sched.locktimeout) :
                sched' = Phase2Worker(w, err)
    /\ UNCHANGED <<pipevars, workerloop, lockcall>>

\* variant: the collector keeps only the last table it received
LockPendingAppendLast(lockpending, m) == <<m>>

\* variant: the collector records the table twice
LockPendingAppendTwice(lockpending, m) == Append(Append(lockpending, m), m)

\* lockpending = append(lockpending, m) in the collector
LockPendingAppend(lockpending, m) == Append(lockpending, m)

\* lockpendingrcv <- m in a pass-1 worker, received by the collector
LockPendingSend(w) ==
    /\ Alive
    /\ sched.workers[w].state = "send"
    /\ sched.collector = "range"
    /\ sched' = [sched EXCEPT !.workers[w] = [state |-> "recv", m |-> 0],
                              !.lockpending = LockPendingAppend(@, sched.workers[w].m)]
    /\ UNCHANGED <<pipevars, workerloop, lockcall>>

\* range matchiter ends: close(donechan)
WorkerDone(w) ==
    /\ Alive
    /\ sched.workers[w].state = "recv"
    /\ sched.queue = <<>>
    /\ sched.iterclosed
    /\ sched' = [sched EXCEPT !.workers[w].state = "closed"]
    /\ UNCHANGED <<pipevars, workerloop, lockcall>>

\* conn.Close() of a pass-2 worker, after its close(donechan)
WorkerCloseConn(w) ==
    /\ Alive
    /\ sched.phase = 2
    /\ sched.workers[w].state = "closed"
    /\ sched' = [sched EXCEPT !.workers[w].state = "connclosed",
                              !.closes[sched.connof[w]] = @ + 1]
    /\ UNCHANGED <<pipevars, workerloop, lockcall>>

\* variant: main goes on to receive lockpendingret without closing lockpendingrcv
AfterDoneChansNoClose(phase) == IF phase = 1 THEN "recvpending" ELSE "stats"

\* the statement of main after the loop over donechans
AfterDoneChans(phase) == IF phase = 1 THEN "closercv" ELSE "stats"

\* variant: main does not wait for the worker
DoneChanIgnored(state) == TRUE

\* <-donechan returns once the worker has closed the channel
DoneChanClosed(state) == state \in {"closed", "connclosed"}

\* <-donechan for the next worker
MainWait ==
    /\ Alive
    /\ sched.mainpc = "wait"
    /\ IF sched.waiting \in DOMAIN sched.workers
       THEN /\ DoneChanClosed(sched.workers[sched.waiting].state)
            /\ sched' = [sched EXCEPT !.waiting = @ + 1]
       ELSE sched' = [sched EXCEPT !.mainpc = AfterDoneChans(sched.phase)]
    /\ UNCHANGED <<pipevars, workerloop, lockcall>>

\* close(lockpendingrcv)
MainCloseRcv ==
    /\ Alive
    /\ sched.mainpc = "closercv"
    /\ sched' = [sched EXCEPT !.rcvclosed = TRUE, !.mainpc = "recvpending"]
    /\ UNCHANGED <<pipevars, workerloop, lockcall>>

\* range matchin ends in the collector
CollectorEnd ==
    /\ Alive
    /\ sched.collector = "range"
    /\ sched.rcvclosed
    /\ sched' = [sched EXCEPT !.collector = "return"]
    /\ UNCHANGED <<pipevars, workerloop, lockcall>>

\* matchesout <- lockpending in the collector, lockpending := <-lockpendingret in main
LockPendingRet ==
    /\ Alive
    /\ sched.collector = "return"
    /\ sched.mainpc = "recvpending"
    /\ sched' = [sched EXCEPT !.collector = "done", !.mainpending = sched.lockpending,
                              !.mainpc = "branch"]
    /\ UNCHANGED <<pipevars, workerloop, lockcall>>

\* nothing is pending: close the connections, print the statistics, os.Exit(0)
MainExitNothingPending ==
    /\ Alive
    /\ sched.mainpc = "branch"
    /\ Len(sched.mainpending) = 0
    /\ sched' = [sched EXCEPT !.exit = Some(0),
                              !.closes = [c \in DOMAIN @ |->
                                            IF dryrun /\ ZeroStruct(c) THEN @[c] ELSE @[c] + 1]]
    /\ UNCHANGED <<pipevars, workerloop, lockcall>>

\* variant: every connection of the first pass is kept for the second
KeptConnectionsAll(n, p) == n

\* len(connections) after the connections over len(lockpending) were closed
KeptConnections(n, p) == IF n - p > 0 THEN n - (n - p) ELSE n

\* close the connections over len(lockpending), start the second iterator and workers
MainStartPhase2 ==
    /\ Alive
    /\ sched.mainpc = "branch"
    /\ Len(sched.mainpending) # 0
    /\ sched' = [sched EXCEPT
                    !.phase = 2,
                    !.queue = sched.mainpending,
                    !.iterclosed = FALSE,
                    !.workers = [ w \in 1..KeptConnections(Len(sched.workers),
                                                           Len(sched.mainpending)) |->
                                    [state |-> "recv", m |-> 0] ],
                    !.connof = [ w \in 1..KeptConnections(Len(sched.workers),
                                                          Len(sched.mainpending)) |->
                                   ConnectionOf(w) ],
                    !.closes = [ c \in DOMAIN @ |->
                                   IF c > KeptConnections(Len(sched.workers),
                                                          Len(sched.mainpending))
                                   THEN @[c] + 1 ELSE @[c] ],
                    !.waiting = 1,
                    !.mainpc = "wait"]
    /\ UNCHANGED <<pipevars, workerloop, lockcall>>

\* runstats.OutputStats(); os.Exit(0) at the end of main
MainExit ==
    /\ Alive
    /\ sched.mainpc = "stats"
    /\ sched' = [sched EXCEPT !.exit = Some(0)]
    /\ UNCHANGED <<pipevars, workerloop, lockcall>>

NextSched ==
    \/ \E w \in DOMAIN sched.workers : MatchIterSend(w)
    \/ MatchIterClose
    \/ \E w \in DOMAIN sched.workers : WorkerUpdate(w)
    \/ \E w \in DOMAIN sched.workers : LockPendingSend(w)
    \/ \E w \in DOMAIN sched.workers : WorkerDone(w)
    \/ \E w \in DOMAIN sched.workers : WorkerCloseConn(w)
    \/ MainWait
    \/ MainCloseRcv
    \/ CollectorEnd
    \/ LockPendingRet
    \/ MainExitNothingPending
    \/ MainStartPhase2
    \/ MainExit

(***************************************************************************)
(* The body of a worker's loop, statement by statement, for the workers of *)
(* one pass.  workerloop has the fields                                    *)
(*   phase, skiplocked     the pass and --skip-locked                      *)
(*   todo                  per worker: what its calls are going to return  *)
(*   pc, cur, idx, tmp     per worker: its position, the result it handles,*)
(*                         its place in a loop over SettingSuccess, and    *)
(*                         the counters it read for an increment           *)
(*   outmutex, accessLock  the holder of each mutex, 0 when free           *)
(*   out                   the lines written to the log, in order          *)
(*   stats, passed         runstats, and the results UpdateFromResult got  *)
(*   timer, waitctx, wd    per table: the watchdog's timer, whether        *)
(*                         waitcancel() was called, the watchdog's position*)
(*   owner                 per table: the worker that has it               *)
(*   mainpc, summary       main, and the counters OutputStats printed      *)
(***************************************************************************)
WLRunning == workerloop # Nil /\ workerloop.mainpc = "wait"

\* the lines of OutputResult, each with the level it is logged at
OutputResult(rslt) ==
    LET anyfailed == \E i \in DOMAIN rslt.SettingSuccess : ~rslt.SettingSuccess[i].Success
        header == [table |-> rslt.Match.Reloid, kind |-> "header", setting |-> "",
                   level |-> IF anyfailed THEN "info" ELSE "debug"]
        line(val) == IF val.Success
                     THEN [table |-> rslt.Match.Reloid, kind |-> "set",
                           setting |-> val.Setting, level |-> "debug"]
                     ELSE [table |-> rslt.Match.Reloid, kind |-> "failed",
                           setting |-> val.Setting, level |-> "warn"]
    IN  <<header>> \o [ i \in DOMAIN rslt.SettingSuccess |-> line(rslt.SettingSuccess[i]) ]

\* log.Warn(err) for a lock error
LockWarning(rslt) ==
    [table |-> rslt.Match.Reloid, kind |-> "lockwarn", setting |-> "", level |-> "warn"]

\* log.Warnf("Waiting for lock on table %s", ...) of the watchdog
WaitWarning(t) == [table |-> t, kind |-> "waiting", setting |-> "", level |-> "warn"]

\* what a worker writes between outmutex.Lock() and outmutex.Unlock()
LockedLines(skiplocked, rslt) ==
    IF rslt.Err = "none" THEN OutputResult(rslt)
    ELSE OutputResult(rslt) \o <<LockWarning(rslt)>>

\* a line as it lands in the log: who wrote it, whether the writer held
\* outmutex, and for a watchdog's warning whether the call had already returned
\* and whether its lock statement had already ended
Written(line, w, held) ==
    [table |-> line.table, kind |-> line.kind, setting |-> line.setting,
     level |-> line.level, by |-> w, held |-> held, late |-> FALSE, lockover |-> FALSE]

\* variant: UpdateFromResult goes on without waiting for the mutex
AccessLockIgnored(holder) == TRUE

\* rs.accessLock.Lock() returns only when nobody holds the mutex
AccessLockFree(holder) == holder = 0

\* variant: a worker writes its lines without waiting for the mutex
OutMutexIgnored(holder) == TRUE

\* outmutex.Lock() returns only when nobody holds the mutex
OutMutexFree(holder) == holder = 0

\* variant: an entry that failed is not counted as an error
CountedSetOnly(counters, val) ==
    [counters EXCEPT !.ParametersSet = @ + (IF val.Success THEN 1 ELSE 0)]

\* rs.ParametersAttempted++ on the values that were read
CountedAttempted(read) == [read EXCEPT !.ParametersAttempted = @ + 1]

\* if val.Success { rs.ParametersSet++ } else { rs.ParametersErrored++ }
Counted(counters, val) ==
    [counters EXCEPT !.ParametersSet = @ + (IF val.Success THEN 1 ELSE 0),
                     !.ParametersErrored = @ + (IF val.Success THEN 0 ELSE 1)]

\* for m := range matchiter; in the second pass the watchdog of the call is started
WLRecv(w) ==
    /\ WLRunning
    /\ workerloop.pc[w] = "recv"
    /\ workerloop.todo[w] # <<>>
    /\ LET t == Head(workerloop.todo[w]).Match.Reloid
       IN  workerloop' =
             IF workerloop.phase = 2
             THEN [workerloop EXCEPT !.pc[w] = "call", !.timer[t] = "running",
                                     !.wd[t] = "select"]
             ELSE [workerloop EXCEPT !.pc[w] = "call"]
    /\ UNCHANGED <<pipevars, sched, lockcall>>

\* in the second pass, where a watchdog runs beside the call: the lock statement
\* of the call ends, with the lock held or with the lock's error; the call goes
\* on to its ALTER TABLE statements and its commit, or to its rollback
WLLockOver(w) ==
    /\ WLRunning
    /\ workerloop.phase = 2
    /\ workerloop.pc[w] = "call"
    /\ ~workerloop.lockover[Head(workerloop.todo[w]).Match.Reloid]
    /\ workerloop' = [workerloop EXCEPT
                        !.lockover[Head(workerloop.todo[w]).Match.Reloid] = TRUE]
    /\ UNCHANGED <<pipevars, sched, lockcall>>

\* the call returns (and waitcancel() in the second pass), and the branch on err
WLCall(w) ==
    /\ WLRunning
    /\ workerloop.pc[w] = "call"
    /\ workerloop.phase = 2 => workerloop.lockover[Head(workerloop.todo[w]).Match.Reloid]
    /\ LET rslt == Head(workerloop.todo[w])
           t == rslt.Match.Reloid
           returned == [workerloop EXCEPT !.cur[w] = Some(rslt), !.todo[w] = Tail(@),
                                          !.waitctx[t] = (workerloop.phase = 2)]
       IN  workerloop' =
             IF rslt.Err = "none"
             THEN [returned EXCEPT !.pc[w] = "outlock"]
             ELSE IF workerloop.phase = 1
             THEN IF workerloop.skiplocked
                  THEN [returned EXCEPT !.pc[w] = "outlock"]
                  ELSE [returned EXCEPT !.pc[w] = "stats"]
             ELSE [returned EXCEPT !.pc[w] = "stats",
                                   !.out = Append(@, Written(LockWarning(rslt), w,
                                                            workerloop.outmutex = w))]
    /\ UNCHANGED <<pipevars, sched, lockcall>>

\* outmutex.Lock() and the first line, a further line, the last line and
\* outmutex.Unlock(): the lines of rslt.OutputResult() (and of log.Warn(err)
\* with --skip-locked), one line a step
WLOutLine(w) ==
    /\ WLRunning
    /\ workerloop.pc[w] \in {"outlock", "out"}
    /\ workerloop.pc[w] = "outlock" => OutMutexFree(workerloop.outmutex)
    /\ LET lines == LockedLines(workerloop.skiplocked, workerloop.cur[w][1])
           i == IF workerloop.pc[w] = "outlock" THEN 1 ELSE workerloop.idx[w]
       IN  workerloop' = [workerloop EXCEPT
                            !.out = Append(@, Written(lines[i], w, TRUE)),
                            !.idx[w] = i + 1,
                            !.outmutex = IF i = Len(lines) THEN 0 ELSE w,
                            !.pc[w] = IF i = Len(lines) THEN "stats" ELSE "out"]
    /\ UNCHANGED <<pipevars, sched, lockcall>>

\* runstats.UpdateFromResult(&rslt): rs.accessLock.Lock() before the first
\* entry; for an entry of SettingSuccess the counters are read ...
WLStatsRead(w) ==
    /\ WLRunning
    /\ workerloop.pc[w] \in {"stats", "statsread"}
    /\ workerloop.pc[w] = "stats" => AccessLockFree(workerloop.accessLock)
    /\ workerloop' = [workerloop EXCEPT
                        !.accessLock = w,
                        !.passed = @ \cup {workerloop.cur[w][1]},
                        !.idx[w] = IF workerloop.pc[w] = "stats" THEN 1 ELSE @,
                        !.tmp[w] = workerloop.stats,
                        !.pc[w] = "statswrite"]
    /\ UNCHANGED <<pipevars, sched, lockcall>>

\* ... and rs.ParametersAttempted++ is written back
WLStatsWrite(w) ==
    /\ WLRunning
    /\ workerloop.pc[w] = "statswrite"
    /\ workerloop' = [workerloop EXCEPT !.stats = CountedAttempted(workerloop.tmp[w]),
                                        !.pc[w] = "statsoutcome"]
    /\ UNCHANGED <<pipevars, sched, lockcall>>

\* the increment for the entry's outcome; after the last entry the deferred
\* rs.accessLock.Unlock(), and back to range matchiter
WLStatsOutcome(w) ==
    /\ WLRunning
    /\ workerloop.pc[w] = "statsoutcome"
    /\ LET ss == workerloop.cur[w][1].SettingSuccess
           i == workerloop.idx[w]
       IN  workerloop' =
             IF i = Len(ss)
             THEN [workerloop EXCEPT !.stats = Counted(@, ss[i]),
                                     !.accessLock = 0, !.pc[w] = "recv", !.cur[w] = Nil]
             ELSE [workerloop EXCEPT !.stats = Counted(@, ss[i]),
                                     !.idx[w] = i + 1, !.pc[w] = "statsread"]
    /\ UNCHANGED <<pipevars, sched, lockcall>>

\* range matchiter ends: close(donechan)
WLDone(w) ==
    /\ WLRunning
    /\ workerloop.pc[w] = "recv"
    /\ workerloop.todo[w] = <<>>
    /\ workerloop' = [workerloop EXCEPT !.pc[w] = "closed"]
    /\ UNCHANGED <<pipevars, sched, lockcall>>

\* the timer of a watchdog fires: a value is put on timer.C
WLTimerFire(t) ==
    /\ WLRunning
    /\ workerloop.timer[t] = "running"
    /\ workerloop' = [workerloop EXCEPT !.timer[t] = "fired"]
    /\ UNCHANGED <<pipevars, sched, lockcall>>

\* the watchdog once its select can go on: case <-waitctx.Done() leaves the
\* select; if !timer.Stop() { <-timer.C } then stops a timer that has not fired
\* and takes the value of one that has.  case <-timer.C takes the value and
\* writes the warning; timer.Stop() is then false and <-timer.C waits for a
\* second value, which never comes.
WLWatchdog(t) ==
    /\ WLRunning
    /\ workerloop.wd[t] = "select"
    /\ \/ /\ workerloop.waitctx[t]
          /\ workerloop' = [workerloop EXCEPT !.wd[t] = "done", !.timer[t] = "off"]
       \/ /\ workerloop.timer[t] = "fired"
          /\ workerloop' = [workerloop EXCEPT
                              !.timer[t] = "off",
                              !.wd[t] = "blocked",
                              !.out = Append(@, [Written(WaitWarning(t), workerloop.owner[t],
                                                         FALSE)
                                                 EXCEPT !.late = workerloop.waitctx[t],
                                                        !.lockover = workerloop.lockover[t]])]
    /\ UNCHANGED <<pipevars, sched, lockcall>>

\* every donechan is closed: runstats.OutputStats(), os.Exit(0)
WLMainExit ==
    /\ WLRunning
    /\ \A w \in DOMAIN workerloop.pc : workerloop.pc[w] = "closed"
    /\ workerloop' = [workerloop EXCEPT
                        !.mainpc = "exit",
                        !.summary = Some([ParametersSet |-> workerloop.stats.ParametersSet,
                                          ParametersErrored |->
                                              workerloop.stats.ParametersErrored])]
    /\ UNCHANGED <<pipevars, sched, lockcall>>

NextWorkerLoop ==
    \/ \E w \in DOMAIN workerloop.pc : WLRecv(w)
    \/ \E w \in DOMAIN workerloop.pc : WLLockOver(w)
    \/ \E w \in DOMAIN workerloop.pc : WLCall(w)
    \/ \E w \in DOMAIN workerloop.pc : WLOutLine(w)
    \/ \E w \in DOMAIN workerloop.pc : WLStatsRead(w)
    \/ \E w \in DOMAIN workerloop.pc : WLStatsWrite(w)
    \/ \E w \in DOMAIN workerloop.pc : WLStatsOutcome(w)
    \/ \E w \in DOMAIN workerloop.pc : WLDone(w)
    \/ \E t \in DOMAIN workerloop.timer : WLTimerFire(t)
    \/ \E t \in DOMAIN workerloop.timer : WLWatchdog(t)
    \/ WLMainExit

(***************************************************************************)
(* The waiting lock attempt of the applier that cancels by request         *)
(***************************************************************************)
\* the most cancel requests that are told apart
MaxCancels == 3

LockCallRunning == lockcall # Nil

\* context.WithTimeout(bgctx, DurationSeconds(timeout)) is done from the start
\* when the duration is not positive
ExpiredAtOnce(seconds) == seconds <= 0

\* variant: the worker goes on right after the lock statement, the goroutine is
\* left to itself
GrAbandoned(closed) == TRUE

\* <-grdone returns once the goroutine has closed the channel
GrJoined(closed) == closed

\* the state of a call as it starts its transaction and its timeout goroutine
LockCallStart(seconds, more) ==
    [timeoutarg |-> seconds, callsleft |-> more,
     wpc |-> "send", gpc |-> "select",
     lockdone |-> FALSE, grdone |-> FALSE,
     expired |-> ExpiredAtOnce(seconds),
     srv |-> "idle", err |-> Nil,
     cancels |-> 0, sentafter |-> FALSE, hitlater |-> FALSE]

\* tx.Query(bgctx, locksql) puts the lock statement before the server, where it
\* waits for the lock
LockQuerySend ==
    /\ LockCallRunning
    /\ lockcall.wpc = "send"
    /\ lockcall' = [lockcall EXCEPT !.wpc = "query", !.srv = "lock"]
    /\ UNCHANGED <<pipevars, sched, workerloop>>

\* the holder of the conflicting lock lets go: the lock statement ends well
LockGranted ==
    /\ LockCallRunning
    /\ lockcall.srv = "lock"
    /\ lockcall' = [lockcall EXCEPT !.srv = "idle", !.err = "none"]
    /\ UNCHANGED <<pipevars, sched, workerloop>>

\* the deadline of timeoutctx passes
TimeoutExpires ==
    /\ LockCallRunning
    /\ ~lockcall.expired
    /\ lockcall.gpc # "done"
    /\ lockcall' = [lockcall EXCEPT !.expired = TRUE]
    /\ UNCHANGED <<pipevars, sched, workerloop>>

\* tx.Query returns with what became of the lock statement
LockQueryReturns ==
    /\ LockCallRunning
    /\ lockcall.wpc = "query"
    /\ lockcall.srv = "idle"
    /\ lockcall' = [lockcall EXCEPT !.wpc = "close"]
    /\ UNCHANGED <<pipevars, sched, workerloop>>

\* close(lockdone)
CloseLockdone ==
    /\ LockCallRunning
    /\ lockcall.wpc = "close"
    /\ lockcall' = [lockcall EXCEPT !.wpc = "join", !.lockdone = TRUE]
    /\ UNCHANGED <<pipevars, sched, workerloop>>

\* <-grdone, and the next statement on the connection: the rollback after an
\* error, or the rows of the lock statement and the ALTER TABLE statements
JoinTimeoutTask ==
    /\ LockCallRunning
    /\ lockcall.wpc = "join"
    /\ GrJoined(lockcall.grdone)
    /\ lockcall' = [lockcall EXCEPT !.wpc = "next", !.srv = "later"]
    /\ UNCHANGED <<pipevars, sched, workerloop>>

\* the statements after the lock statement end and the call returns
LaterStatementEnds ==
    /\ LockCallRunning
    /\ lockcall.wpc = "next"
    /\ lockcall' = [lockcall EXCEPT !.wpc = "returned", !.srv = "idle"]
    /\ UNCHANGED <<pipevars, sched, workerloop>>

\* the worker's next call on the same connection: a new transaction, new
\* channels, a new timeout and a new goroutine
NextLockCall ==
    /\ LockCallRunning
    /\ lockcall.wpc = "returned"
    /\ lockcall.callsleft > 0
    /\ lockcall' = [LockCallStart(lockcall.timeoutarg, lockcall.callsleft - 1)
                      EXCEPT !.cancels = lockcall.cancels,
                             !.sentafter = lockcall.sentafter,
                             !.hitlater = lockcall.hitlater]
    /\ UNCHANGED <<pipevars, sched, workerloop>>

\* case <-lockdone of either select: return, with the deferred timeoutcancel()
\* and close(grdone)
TimeoutTaskLockdone ==
    /\ LockCallRunning
    /\ lockcall.gpc \in {"select", "inner"}
    /\ lockcall.lockdone
    /\ lockcall' = [lockcall EXCEPT !.gpc = "done", !.grdone = TRUE]
    /\ UNCHANGED <<pipevars, sched, workerloop>>

\* case <-timeoutctx.Done() of the outer select: CancelRequest, which returns
\* when the server has taken the request.  The request ends a lock statement
\* that is waiting, or fails to; it does nothing to a session between
\* statements; it ends whatever later statement it finds running.
TimeoutTaskCancel ==
    /\ LockCallRunning
    /\ lockcall.gpc = "select"
    /\ lockcall.expired
    /\ \E worked \in BOOLEAN :
         lockcall' = [lockcall EXCEPT
                        !.gpc = "inner",
                        !.cancels = Min({@ + 1, MaxCancels}),
                        !.sentafter = @ \/ lockcall.wpc \in {"next", "returned"},
                        !.hitlater = @ \/ lockcall.srv = "later",
                        !.srv = IF lockcall.srv = "lock" /\ worked THEN "idle" ELSE @,
                        !.err = IF lockcall.srv = "lock" /\ worked THEN "canceled" ELSE @]
    /\ UNCHANGED <<pipevars, sched, workerloop>>

\* case <-time.After(100 * time.Millisecond) of the inner select: loop
TimeoutTaskAfter ==
    /\ LockCallRunning
    /\ lockcall.gpc = "inner"
    /\ lockcall' = [lockcall EXCEPT !.gpc = "select"]
    /\ UNCHANGED <<pipevars, sched, workerloop>>

NextLockCallSteps ==
    \/ LockQuerySend
    \/ LockGranted
    \/ TimeoutExpires
    \/ LockQueryReturns
    \/ CloseLockdone
    \/ JoinTimeoutTask
    \/ LaterStatementEnds
    \/ NextLockCall
    \/ TimeoutTaskLockdone
    \/ TimeoutTaskCancel
    \/ TimeoutTaskAfter

(***************************************************************************)
(* Configurations and catalogs                                             *)
(***************************************************************************)
MaxGroups == 2

Params == {"fillfactor", "user_catalog_table"}
Thresholds == {0, 1000}
Rows == {-1, 500, 1000, 5000}

\* settings maps of a rule: parameter -> "80" or null
SettingsMaps == UNION { [ks -> {Nil, Some("80")}] : ks \in SUBSET Params }

\* rulesets as the loader accepts them: no two rules with the same minrows
RuleLists ==
    { rs \in UNION { [1..n -> [Minrows : Thresholds, Settings : SettingsMaps]] :
                       n \in 0..Cardinality(Thresholds) } :
        \A i, j \in DOMAIN rs : i # j => rs[i].Minrows # rs[j].Minrows }

\* reloptions: at most one element per parameter
RelOptions ==
    { o \in SUBSET (Params \X {"80", "90"}) : \A a, b \in o : a[1] = b[1] => a = b }

Rel(oid, ns, name, owner, kind, pers, tuples, opts) ==
    [oid |-> oid, relnamespace |-> ns, relname |-> name, relowner |-> owner,
     relkind |-> kind, relpersistence |-> pers, reltuples |-> tuples, reloptions |-> opts]

\* a table, a materialized view in a schema that differs by case, an index, a temporary table
Catalog(tuples, opts, tuples2) ==
    { Rel(1, "s1", "t1", "bob", "r", "p", tuples, opts),
      Rel(2, "S1", "t2", "alice", "m", "p", tuples2, {<<"fillfactor", "90">>}),
      Rel(3, "s1", "t1_pkey", "bob", "i", "p", 5000, {}),
      Rel(4, "pg_temp_3", "t1", "bob", "r", "t", 5000, {<<"fillfactor", "90">>}) }

Group(s, t, o, cs, rs) ==
    [Schema |-> s, Table |-> t, Owner |-> o, CaseSensitive |-> cs, Ruleset |-> rs]

InitCommon ==
    /\ pg_class0 = pg_class
    /\ pc = "start"
    /\ temptables = {}
    /\ tablematches = {}
    /\ pending = {}
    /\ cur = Nil
    /\ waitmode = WaitModeNowait
    /\ timeout = 0
    /\ locksql = Nil
    /\ locktimeout = Nil
    /\ txstate = "none"
    /\ keysleft = <<>>
    /\ result = <<>>
    /\ results = {}
    /\ rerun = {}
    /\ displayed = {}
    /\ exitcode = Nil
    /\ txopts = {}

\* rule resolution: every ruleset over two thresholds and two parameters, for a
\* table of every size and with every combination of current parameters
Init ==
    /\ matchgroups = <<Group("^s1$", "", "", TRUE, "a")>>
    /\ rulesets \in { [a |-> rl] : rl \in RuleLists }
    /\ displaymode \in BOOLEAN
    /\ pg_class \in { Catalog(n, o, 5000) : n \in Rows, o \in RelOptions }
    /\ dryrun = FALSE
    /\ callmodes = {<<WaitModeNowait, 0>>}
    /\ sched = Nil
    /\ workerloop = Nil
    /\ lockcall = Nil
    /\ InitCommon

Spec == Init /\ [][NextPipe]_vars

\* matchgroup assignment: every list of up to MaxGroups matchgroups, over a table
\* above and a materialized view below the threshold of ruleset a
Groups ==
    { Group(pt[1], pt[2], pt[3], cs, rs) :
        pt \in { <<"", "", "">>, <<"^s1$", "^t1$", "">>, <<"", "", "^BOB$">> },
        cs \in BOOLEAN, rs \in {"", "a", "b"} }

GroupLists == UNION { [1..n -> Groups] : n \in 1..MaxGroups }

MatchRulesets ==
    [a |-> << [Minrows |-> 1000, Settings |-> [fillfactor |-> Some("80")]] >>,
     b |-> << [Minrows |-> 0,
               Settings |-> [fillfactor |-> Nil, user_catalog_table |-> Some("80")]] >>]

InitMatch ==
    /\ matchgroups \in GroupLists
    /\ rulesets = MatchRulesets
    /\ displaymode \in BOOLEAN
    /\ pg_class = Catalog(5000, {<<"fillfactor", "90">>}, 500)
    /\ dryrun = FALSE
    /\ callmodes = {<<WaitModeNowait, 0>>}
    /\ sched = Nil
    /\ workerloop = Nil
    /\ lockcall = Nil
    /\ InitCommon

SpecMatch == InitMatch /\ [][NextPipe]_vars

\* the scheduler: up to MaxTables table matches, up to MaxJobs jobs, with and
\* without --dry-run and --skip-locked, without and with a lock timeout
MaxTables == 3
MaxJobs == 2

SchedMatch(t) ==
    [Reloid |-> t, Relkind |-> "r", QuotedFullName |-> <<"s1", t>>, Owner |-> "bob",
     Reltuples |-> 5000, MatchgroupNum |-> 1,
     Parameters |-> [p \in {"fillfactor"} |-> [OldSetting |-> Nil, NewSetting |-> Some("80")]]]

\* main after it has started the goroutines of the first pass
SchedStart(k, j, skip, lt) ==
    [jobs |-> j, skiplocked |-> skip, locktimeout |-> lt,
     phase |-> 1,
     queue |-> [i \in 1..k |-> i], iterclosed |-> FALSE,
     workers |-> [w \in 1..Connections(k, j) |-> [state |-> "recv", m |-> 0]],
     waiting |-> 1, mainpc |-> "wait",
     rcvclosed |-> FALSE, collector |-> "range", lockpending |-> <<>>,
     mainpending |-> <<>>,
     exit |-> Nil,
     calls |-> [t \in 1..k |-> <<>>],
     altered |-> [t \in 1..k |-> FALSE],
     closes |-> [c \in 1..Connections(k, j) |-> 0],
     connof |-> [w \in 1..Connections(k, j) |-> ConnectionOf(w)],
     reported |-> [t \in 1..k |-> {}]]

InitSched ==
    /\ matchgroups = <<Group("", "", "", TRUE, "a")>>
    /\ rulesets = MatchRulesets
    /\ displaymode = FALSE
    /\ dryrun \in BOOLEAN
    /\ pg_class = {}
    /\ callmodes = {}
    /\ sched \in { SchedStart(k, j, skip, lt) :
                     k \in 0..MaxTables, j \in 1..MaxJobs, skip \in BOOLEAN, lt \in {-1, 5} }
    /\ workerloop = Nil
    /\ lockcall = Nil
    /\ pg_class0 = pg_class
    /\ pc = "matched"
    /\ temptables = {}
    /\ tablematches = { SchedMatch(t) : t \in DOMAIN sched.calls }
    /\ pending = {}
    /\ cur = Nil
    /\ waitmode = WaitModeNowait
    /\ timeout = 0
    /\ locksql = Nil
    /\ locktimeout = Nil
    /\ txstate = "none"
    /\ keysleft = <<>>
    /\ result = <<>>
    /\ results = {}
    /\ rerun = {}
    /\ displayed = {}
    /\ exitcode = Nil
    /\ txopts = {}

\* every goroutine that can take a step eventually takes one
SpecSched == InitSched /\ [][NextSched]_vars /\ WF_vars(NextSched)

\* the applier: one ruleset of one rule over every non-empty set of these
\* parameters, on a table that has all or none of them set, and two rulesets on
\* that table and a materialized view; dry run or not; no wait, wait without a
\* timeout, or wait with a lock timeout
ApplyParams ==
    {"fillfactor", "parallel_workers", "autovacuum_enabled", "toast.autovacuum_enabled",
     "vacuum_truncate", "user_catalog_table"}

InitApply ==
    /\ \/ /\ matchgroups = <<Group("^s1$", "", "", TRUE, "a")>>
          /\ rulesets \in { [a |-> << [Minrows |-> 0, Settings |-> [p \in keys |-> new]] >>] :
                              keys \in (SUBSET ApplyParams) \ {{}}, new \in {Nil, Some("80")} }
       \/ /\ matchgroups = <<Group("^s1$", "", "", FALSE, "a")>>
          /\ rulesets \in { [a |-> << [Minrows |-> 0, Settings |-> [p \in keys |-> Some("80")]] >>] :
                              keys \in {{"fillfactor"}, {"fillfactor", "vacuum_truncate"}} }
    /\ displaymode \in BOOLEAN
    /\ pg_class \in { Catalog(5000, o, 5000) : o \in {{}, ApplyParams \X {"90"}} }
    /\ dryrun \in BOOLEAN
    /\ callmodes \in { {<<WaitModeNowait, 0>>}, {<<WaitModeWait, -1>>}, {<<WaitModeWait, 5>>} }
    /\ sched = Nil
    /\ workerloop = Nil
    /\ lockcall = Nil
    /\ InitCommon

SpecApply == InitApply /\ [][NextPipe]_vars

\* the same, where a lock statement that was sent is eventually answered
SpecApplyFair == InitApply /\ [][NextPipe]_vars /\ WF_vars(UpdateTableOptionsLock)

\* what the call for table t can return: every parameter applied, a parameter
\* failed, or the lock was not had (the timed-out error in the second pass)
CallResults(t, phase) ==
    LET m == SchedMatch(t)
        keys == SortStrings(DOMAIN m.Parameters)
    IN  { [Match |-> m, Err |-> "none",
           SettingSuccess |-> InitialSettingSuccess(m) \o
               [i \in DOMAIN keys |-> [Setting |-> keys[i], Success |-> ok]]] :
            ok \in BOOLEAN }
        \cup { [Match |-> m, Err |-> LockError(IF phase = 1 THEN "lock_not_available"
                                                      ELSE "lock_timeout"),
                SettingSuccess |-> InitialSettingSuccess(m)] }

\* the workers of a pass, each with one table to go
WorkerLoopStart(n, phase, skip, rs) ==
    [phase |-> phase, skiplocked |-> skip,
     todo |-> [w \in 1..n |-> <<rs[w]>>],
     pc |-> [w \in 1..n |-> "recv"],
     cur |-> [w \in 1..n |-> Nil],
     idx |-> [w \in 1..n |-> 0],
     tmp |-> [w \in 1..n |-> [ParametersAttempted |-> 0, ParametersSet |-> 0,
                              ParametersErrored |-> 0]],
     outmutex |-> 0, accessLock |-> 0,
     out |-> <<>>,
     stats |-> [ParametersAttempted |-> 0, ParametersSet |-> 0, ParametersErrored |-> 0],
     passed |-> {},
     owner |-> [t \in 1..n |-> t],
     timer |-> [t \in 1..n |-> "none"],
     waitctx |-> [t \in 1..n |-> FALSE],
     lockover |-> [t \in 1..n |-> FALSE],
     wd |-> [t \in 1..n |-> "none"],
     mainpc |-> "wait", summary |-> Nil]

\* the numbers of workers the second pass is looked at with
SecondPassWorkers == {1, 2}

\* the passes looked at: the first pass with up to MaxJobs workers, with and
\* without --skip-locked, and the second pass
WorkerLoopPasses ==
    { <<n, 1, skip>> : n \in 1..MaxJobs, skip \in BOOLEAN }
    \cup { <<n, 2, FALSE>> : n \in SecondPassWorkers }

InitWorkerLoop ==
    /\ matchgroups = <<Group("", "", "", TRUE, "a")>>
    /\ rulesets = MatchRulesets
    /\ displaymode = FALSE
    /\ dryrun = FALSE
    /\ pg_class = {}
    /\ callmodes = {}
    /\ sched = Nil
    /\ lockcall = Nil
    /\ workerloop \in
         UNION { { WorkerLoopStart(ps[1], ps[2], ps[3], rs) :
                     rs \in [1..ps[1] -> UNION { CallResults(t, ps[2]) : t \in 1..ps[1] }] } :
                 ps \in WorkerLoopPasses }
    /\ \A w \in DOMAIN workerloop.todo : workerloop.todo[w][1].Match.Reloid = w
    /\ pg_class0 = pg_class
    /\ pc = "matched"
    /\ temptables = {}
    /\ tablematches = { SchedMatch(t) : t \in DOMAIN workerloop.owner }
    /\ pending = {}
    /\ cur = Nil
    /\ waitmode = WaitModeNowait
    /\ timeout = 0
    /\ locksql = Nil
    /\ locktimeout = Nil
    /\ txstate = "none"
    /\ keysleft = <<>>
    /\ result = <<>>
    /\ results = {}
    /\ rerun = {}
    /\ displayed = {}
    /\ exitcode = Nil
    /\ txopts = {}

\* every goroutine that can take a step eventually takes one
SpecWorkerLoop == InitWorkerLoop /\ [][NextWorkerLoop]_vars /\ WF_vars(NextWorkerLoop)

\* the most calls a worker makes one after the other on its connection
MaxCalls == 3

\* the timeouts a waiting call is looked at with, in seconds
LockTimeouts == {-1, 1}

InitLockCall ==
    /\ matchgroups = <<Group("", "", "", TRUE, "a")>>
    /\ rulesets = MatchRulesets
    /\ displaymode = FALSE
    /\ dryrun = FALSE
    /\ pg_class = {}
    /\ callmodes = {}
    /\ sched = Nil
    /\ workerloop = Nil
    /\ lockcall \in { LockCallStart(seconds, more) :
                        seconds \in LockTimeouts, more \in 0..(MaxCalls - 1) }
    /\ pg_class0 = pg_class
    /\ pc = "matched"
    /\ temptables = {}
    /\ tablematches = {}
    /\ pending = {}
    /\ cur = Nil
    /\ waitmode = WaitModeWait
    /\ timeout = lockcall.timeoutarg
    /\ locksql = Nil
    /\ locktimeout = Nil
    /\ txstate = "none"
    /\ keysleft = <<>>
    /\ result = <<>>
    /\ results = {}
    /\ rerun = {}
    /\ displayed = {}
    /\ exitcode = Nil
    /\ txopts = {}

SpecLockCall == InitLockCall /\ [][NextLockCallSteps]_vars

(***************************************************************************)
(* Properties of the resolution.  The right-hand sides below are written   *)
(* from the documented behaviour, without the query operators.             *)
(***************************************************************************)
Candidate(c) == c.relpersistence = "p" /\ c.relkind \in {"r", "m"}

\* schema, table and owner all satisfy the patterns of matchgroup g
GroupMatches(g, c) ==
    /\ RegexMatch(c.relnamespace, g.Schema, ~g.CaseSensitive)
    /\ RegexMatch(c.relname, g.Table, ~g.CaseSensitive)
    /\ RegexMatch(c.relowner, g.Owner, ~g.CaseSensitive)

FirstMatching(c) ==
    { i \in DOMAIN matchgroups :
        /\ GroupMatches(matchgroups[i], c)
        /\ \A k \in 1..(i - 1) : ~GroupMatches(matchgroups[k], c) }

AssignedTo(c) == { t.tablematchnum : t \in { x \in temptables : x.reloid = c.oid } }

\* the rules of the ruleset relation c resolved to (none if it resolved to no ruleset)
RulesOf(c) ==
    IF \E i \in FirstMatching(c) : matchgroups[i].Ruleset \in DOMAIN rulesets
    THEN rulesets[matchgroups[CHOOSE i \in FirstMatching(c) : TRUE].Ruleset]
    ELSE <<>>

ActiveRules(c) ==
    IF Candidate(c) THEN { i \in DOMAIN RulesOf(c) : RulesOf(c)[i].Minrows <= c.reltuples }
    ELSE {}

NamedBy(c) == UNION { DOMAIN RulesOf(c)[i].Settings : i \in ActiveRules(c) }

\* the value of the active rule with the highest minrows that names p
Target(c, p) ==
    LET naming == { i \in ActiveRules(c) : p \in DOMAIN RulesOf(c)[i].Settings }
        top == CHOOSE i \in naming : \A k \in naming : RulesOf(c)[k].Minrows <= RulesOf(c)[i].Minrows
    IN  RulesOf(c)[top].Settings[p]

CurrentSetting(c, p) ==
    IF \E o \in c.reloptions : o[1] = p
    THEN Some((CHOOSE o \in c.reloptions : o[1] = p)[2])
    ELSE Nil

MatchesOf(c) == { tm \in tablematches : tm.Reloid = c.oid }

\* C1: every candidate relation is assigned to at most one matchgroup, and that
\* matchgroup is the lowest-index one whose schema, table and owner patterns all
\* match it; a later matchgroup never receives a relation an earlier one matches.
FirstMatchWins ==
    pc # "start" =>
        \A c \in pg_class0 :
            /\ Cardinality({ x \in temptables : x.reloid = c.oid }) <= 1
            /\ AssignedTo(c) = IF Candidate(c) THEN FirstMatching(c) ELSE {}

\* a relation both matchgroups match, the second with the more specific pattern
FirstMatchWinsWitness ==
    /\ pc # "start"
    /\ Len(matchgroups) = 2
    /\ matchgroups[1].Schema = "" /\ matchgroups[1].Owner = ""
    /\ matchgroups[2].Schema = "^s1$"
    /\ \E c \in pg_class0 :
        /\ Candidate(c)
        /\ GroupMatches(matchgroups[1], c) /\ GroupMatches(matchgroups[2], c)
        /\ AssignedTo(c) = {1}

\* C2: a rule is active iff minrows <= reltuples (the row estimate); for each parameter named by an
\* active rule the resolved value is that of the active rule with the highest
\* minrows naming it, whatever the order of the rules in the configuration, and
\* active rules naming other parameters contribute theirs.
HighestActiveRuleWins ==
    pc # "start" =>
        \A c \in pg_class0 :
            /\ { <<e.parameter, e.setting>> :
                    e \in { x \in EffectiveSettingsSub2Of(temptables, rulesets) :
                              x.reloid = c.oid } }
                 = { <<p, Target(c, p)>> : p \in NamedBy(c) }
            /\ \A tm \in MatchesOf(c) :
                 /\ DOMAIN tm.Parameters \subseteq NamedBy(c)
                 /\ \A p \in DOMAIN tm.Parameters : tm.Parameters[p].NewSetting = Target(c, p)

\* rules {1000: fillfactor "80"}, {0: fillfactor null} in that order, 500 rows: reset
HighestActiveRuleWinsWitness ==
    /\ pc # "start"
    /\ ~displaymode
    /\ rulesets["a"] = << [Minrows |-> 1000, Settings |-> [fillfactor |-> Some("80")]],
                          [Minrows |-> 0, Settings |-> [fillfactor |-> Nil]] >>
    /\ \E c \in pg_class0 :
        /\ c.reltuples = 500
        /\ \E tm \in MatchesOf(c) :
             tm.Parameters["fillfactor"] = [OldSetting |-> Some("90"), NewSetting |-> Nil]

\* C3: per parameter with a resolved target: a set delta (old value or null, new
\* value) iff the target is a value other than the current one, a reset delta
\* (old value, null) iff the target is null and the parameter is set, and no
\* delta when the target equals the current value or is null on an unset parameter.
DeltaIsDifference ==
    (pc # "start" /\ ~displaymode) =>
        \A c \in pg_class0 : \A p \in NamedBy(c) :
            LET deltas == { tm.Parameters[p] :
                              tm \in { x \in MatchesOf(c) : p \in DOMAIN x.Parameters } }
            IN  IF Target(c, p) = CurrentSetting(c, p)
                THEN deltas = {}
                ELSE deltas = { [OldSetting |-> CurrentSetting(c, p),
                                 NewSetting |-> Target(c, p)] }

\* one match carrying a reset delta and a set delta
DeltaIsDifferenceWitness ==
    /\ pc # "start" /\ ~displaymode
    /\ \E c \in pg_class0 : \E tm \in MatchesOf(c) :
        /\ DOMAIN tm.Parameters = {"fillfactor", "user_catalog_table"}
        /\ tm.Parameters["fillfactor"] = [OldSetting |-> Some("90"), NewSetting |-> Nil]
        /\ tm.Parameters["user_catalog_table"] = [OldSetting |-> Nil, NewSetting |-> Some("80")]
        /\ CurrentSetting(c, "user_catalog_table") = Nil

\* C4: outside display mode a TableMatch is emitted for a relation iff its delta
\* map is non-empty, the delta map holds only parameters some active rule names,
\* and a parameter no active rule names is never set or reset by the run.
OnlyReferencedParameters ==
    /\ (pc # "start" /\ ~displaymode) =>
         \A c \in pg_class0 :
            /\ (MatchesOf(c) # {})
                 = (\E p \in NamedBy(c) : Target(c, p) # CurrentSetting(c, p))
            /\ \A tm \in MatchesOf(c) :
                 /\ DOMAIN tm.Parameters # {}
                 /\ DOMAIN tm.Parameters \subseteq NamedBy(c)
    /\ \A c0 \in pg_class0 : \A p \in Params \ NamedBy(c0) :
         /\ \A c \in pg_class : c.oid = c0.oid => CurrentSetting(c, p) = CurrentSetting(c0, p)
         /\ (txstate = "locked" /\ cur[1].Reloid = c0.oid) =>
                CurrentSetting([reloptions |-> txopts], p) = CurrentSetting(c0, p)

\* fillfactor was changed by the run, user_catalog_table, which no rule names, was kept
OnlyReferencedParametersWitness ==
    /\ pc = "applied"
    /\ \E c0 \in pg_class0 : \E c \in pg_class :
        /\ c.oid = c0.oid
        /\ "user_catalog_table" \notin NamedBy(c0)
        /\ CurrentSetting(c0, "user_catalog_table") = Some("90")
        /\ CurrentSetting(c, "user_catalog_table") = Some("90")
        /\ CurrentSetting(c0, "fillfactor") = Some("90")
        /\ CurrentSetting(c, "fillfactor") = Some("80")

\* every delta of every TableMatch of the run was applied and committed
AllApplied ==
    \A tm \in tablematches : \E r \in results :
        /\ r.Match = tm
        /\ r.Err = "none"
        /\ \A p \in DOMAIN tm.Parameters : \E i \in DOMAIN r.SettingSuccess :
             r.SettingSuccess[i] = [Setting |-> p, Success |-> TRUE]

\* C5: after a run in which every delta of every TableMatch was applied, a second
\* run with the same configuration on the unchanged catalog finds no TableMatch.
SecondRunFindsNothing ==
    (pc = "rerun" /\ AllApplied) => rerun = {}

\* a set and a reset applied by the first run, nothing left for the second
SecondRunFindsNothingWitness ==
    /\ pc = "rerun" /\ AllApplied
    /\ \E tm \in tablematches :
        /\ DOMAIN tm.Parameters = {"fillfactor", "user_catalog_table"}
        /\ tm.Parameters["fillfactor"].NewSetting = Nil
        /\ tm.Parameters["user_catalog_table"].NewSetting = Some("80")
    /\ rerun = {}

\* C6: a relation whose first matching matchgroup has no ruleset gets no
\* TableMatch and no parameter change, and stays assigned to that matchgroup:
\* no later matchgroup receives it.
EmptyRulesetNoFallThrough ==
    \A c0 \in pg_class0 :
        (Candidate(c0) /\ \E i \in FirstMatching(c0) : matchgroups[i].Ruleset = "") =>
            /\ pc # "start" => (MatchesOf(c0) = {} /\ AssignedTo(c0) = FirstMatching(c0))
            /\ \A r \in results : r.Match.Reloid # c0.oid
            /\ \A tm \in rerun : tm.Reloid # c0.oid
            /\ \A c \in pg_class : c.oid = c0.oid => c.reloptions = c0.reloptions

\* the second matchgroup, with ruleset b, matches the relation too and changed another one
EmptyRulesetNoFallThroughWitness ==
    /\ pc = "applied"
    /\ Len(matchgroups) = 2
    /\ matchgroups[1].Ruleset = "" /\ matchgroups[2].Ruleset = "b"
    /\ pg_class # pg_class0
    /\ \E c0 \in pg_class0 :
        /\ Candidate(c0)
        /\ FirstMatching(c0) = {1}
        /\ GroupMatches(matchgroups[2], c0)
        /\ MatchesOf(c0) = {}
        /\ c0 \in pg_class

\* C7 as claimed: display mode surfaces every relation that matches a matchgroup,
\* takes no lock, changes no parameter and exits with status 0.
DisplaySurfacesEveryMatch ==
    (displaymode /\ pc = "exit") =>
        /\ \A c \in pg_class0 :
             (Candidate(c) /\ FirstMatching(c) # {}) =>
                 \E d \in displayed : d.QuotedFullName = <<c.relnamespace, c.relname>>
        /\ results = {}
        /\ pg_class = pg_class0
        /\ exitcode = Some(0)

\* the parameters of ApplyParams that PostgreSQL changes under share update exclusive
LowImpact ==
    {"fillfactor", "parallel_workers", "autovacuum_enabled", "toast.autovacuum_enabled",
     "vacuum_truncate"}

\* C8: the lock statement asks for share update exclusive iff every parameter of
\* the delta map is low-impact, and for access exclusive as soon as one is not.
WeakLockIffAllLowImpact ==
    txstate # "none" =>
        /\ locksql.table = cur[1].QuotedFullName
        /\ (locksql.lockmode = "share update exclusive")
             = (DOMAIN cur[1].Parameters \subseteq LowImpact)
        /\ (locksql.lockmode = "access exclusive")
             = (\E p \in DOMAIN cur[1].Parameters : p \notin LowImpact)

\* access exclusive was taken for a delta map with one parameter outside the list
WeakLockIffAllLowImpactWitness ==
    /\ txstate = "locked"
    /\ DOMAIN cur[1].Parameters = {"autovacuum_enabled", "fillfactor", "user_catalog_table"}
    /\ locksql.lockmode = "access exclusive"

(***************************************************************************)
(* Properties of the scheduler                                             *)
(***************************************************************************)
\* the workers have drained their queue and signalled it, the iterator has closed
\* matchiter, the collector has handed over its slice
AllFinished ==
    /\ \A w \in DOMAIN sched.workers : sched.workers[w].state \in {"closed", "connclosed"}
    /\ sched.queue = <<>> /\ sched.iterclosed
    /\ sched.collector = "done"

\* C9: whatever the number of table matches and jobs, with or without
\* --skip-locked, and whatever the lock requests answer, the run terminates; when
\* main reaches its exit the workers, the iterators and the collector have finished.
SchedulerTerminates ==
    /\ <>(sched.exit # Nil)
    /\ [](sched.exit = Some(0) => AllFinished)

\* main left after a second pass over MaxTables tables with MaxJobs workers
SchedulerTerminatesWitness ==
    /\ sched # Nil
    /\ sched.exit = Some(0)
    /\ sched.phase = 2
    /\ Len(sched.workers) = MaxJobs
    /\ Len(sched.mainpending) = MaxTables
    /\ AllFinished

CallsIn(t, phase) == SelectSeq(sched.calls[t], LAMBDA c : c[1] = phase)

LockFailedIn(t, phase) ==
    \E i \in DOMAIN sched.calls[t] :
        sched.calls[t][i][1] = phase /\ IsAcquireLockError(sched.calls[t][i][2])

\* the last call for t applied it, or its lock failure was reported
AppliedOrReported(t) ==
    /\ sched.calls[t] # <<>>
    /\ LET last == sched.calls[t][Len(sched.calls[t])]
       IN  \/ last[2] = "none"
           \/ IsAcquireLockError(last[2]) /\ "warn" \in sched.reported[t]

\* without --skip-locked the second pass attempts exactly the tables whose nowait
\* attempt failed on the lock, once each; every table ends applied or reported
NoTableDropped ==
    /\ ~sched.skiplocked =>
         \A t \in DOMAIN sched.calls :
            Len(CallsIn(t, 2)) = (IF LockFailedIn(t, 1) THEN 1 ELSE 0)
    /\ \A t \in DOMAIN sched.calls : AppliedOrReported(t)

\* C10 as claimed: when the run has ended, no table was dropped
NoTableDroppedAtExit ==
    (sched # Nil /\ sched.exit # Nil) => NoTableDropped

\* C10, amended: no table is attempted twice in a pass, the second pass attempts
\* only tables whose nowait attempt failed on the lock and only without
\* --skip-locked, and when main exits with status 0 no table was dropped.
NoTableDroppedUnlessFatal ==
    sched # Nil =>
        /\ \A t \in DOMAIN sched.calls :
            /\ Len(CallsIn(t, 1)) <= 1
            /\ Len(CallsIn(t, 2)) <= 1
            /\ Len(CallsIn(t, 2)) = 1 => (LockFailedIn(t, 1) /\ ~sched.skiplocked)
        /\ sched.exit = Some(0) => NoTableDropped

\* a run that applied one table in each pass and gave up on another after the wait
NoTableDroppedUnlessFatalWitness ==
    /\ sched # Nil
    /\ sched.exit = Some(0)
    /\ ~sched.skiplocked
    /\ \E t1, t2, t3 \in DOMAIN sched.calls :
        /\ sched.calls[t1] = << <<1, "none">> >>
        /\ sched.calls[t2] = << <<1, "AcquireLockError">>, <<2, "none">> >>
        /\ sched.calls[t3] = << <<1, "AcquireLockError">>,
                                <<2, "AcquireLockError (wait timed out)">> >>
        /\ sched.reported[t3] = {"warn"}

\* where a table is in its life, read off the scheduler: its calls so far, and
\* whether a worker or a queue holds it
TableState(t) ==
    LET c == sched.calls[t]
        held == \E w \in DOMAIN sched.workers :
                    sched.workers[w].state = "update" /\ sched.workers[w].m = t
        queued == \E i \in DOMAIN sched.queue : sched.queue[i] = t
    IN  CASE Len(c) = 0 -> IF held THEN "NowaitAttempt"
                           ELSE IF sched.phase = 1 /\ queued THEN "Pending" ELSE "Lost"
          [] Len(c) = 1 /\ c[1][1] = 1 ->
                IF c[1][2] = "none" THEN "Applied"
                ELSE IF ~IsAcquireLockError(c[1][2]) THEN "NowaitAttempt"
                ELSE IF sched.skiplocked THEN "SkippedLocked"
                ELSE IF sched.phase = 1 THEN "Deferred"
                ELSE IF held THEN "WaitAttempt"
                ELSE IF queued THEN "WaitQueued" ELSE "Lost"
          [] Len(c) = 2 /\ c[1][1] = 1 /\ c[2][1] = 2 /\ IsAcquireLockError(c[1][2]) ->
                IF c[2][2] = "none" THEN "Applied"
                ELSE IF IsAcquireLockError(c[2][2]) THEN "LockFailed"
                ELSE "WaitAttempt"
          [] OTHER -> "Invalid"

TableStates ==
    {"Pending", "NowaitAttempt", "Applied", "Deferred", "SkippedLocked",
     "WaitQueued", "WaitAttempt", "LockFailed"}

TableTransitions ==
    { <<"Pending", "NowaitAttempt">>,
      <<"NowaitAttempt", "Applied">>, <<"NowaitAttempt", "Deferred">>,
      <<"NowaitAttempt", "SkippedLocked">>,
      <<"Deferred", "WaitQueued">>, <<"WaitQueued", "WaitAttempt">>,
      <<"WaitAttempt", "Applied">>, <<"WaitAttempt", "LockFailed">> }

\* C11: a table only moves Pending -> NowaitAttempt -> {Applied, Deferred,
\* SkippedLocked} and Deferred -> WaitQueued -> WaitAttempt -> {Applied,
\* LockFailed}; SkippedLocked needs --skip-locked and Deferred its absence; a
\* table gets at most one nowait and one wait attempt, none after it was applied.
TableStateMachine ==
    /\ [](\A t \in DOMAIN sched.calls :
            /\ TableState(t) \in TableStates
            /\ TableState(t) = "SkippedLocked" => sched.skiplocked
            /\ TableState(t) \in {"Deferred", "WaitQueued", "WaitAttempt", "LockFailed"}
                 => ~sched.skiplocked
            /\ Len(CallsIn(t, 1)) <= 1
            /\ Len(CallsIn(t, 2)) <= 1)
    /\ [][\A t \in DOMAIN sched.calls :
            \/ TableState(t)' = TableState(t)
            \/ <<TableState(t), TableState(t)'>> \in TableTransitions]_vars

\* tables that ended in each of the outcomes of the second pass, and one applied at once
TableStateMachineWitness ==
    /\ sched # Nil
    /\ \E t1, t2, t3 \in DOMAIN sched.calls :
        /\ sched.calls[t1] = << <<1, "none">> >> /\ TableState(t1) = "Applied"
        /\ Len(sched.calls[t2]) = 2 /\ TableState(t2) = "Applied"
        /\ TableState(t3) = "LockFailed"

(***************************************************************************)
(* Properties of UpdateTableOptions                                        *)
(***************************************************************************)
\* the entries the alter loop has appended to result.SettingSuccess so far
Attempted ==
    SubSeq(result, Cardinality(DOMAIN cur[1].Parameters) + 1, Len(result))

SucceededSoFar(p) ==
    \E i \in DOMAIN Attempted : Attempted[i] = [Setting |-> p, Success |-> TRUE]

\* C12: under the table lock every delta is attempted, in its own nested
\* transaction: a failed one leaves the parameter as it was and is recorded as
\* failed, a succeeded one has its new value, whatever happened to the others.
ParameterIsolation ==
    txstate = "locked" =>
        LET m == cur[1]
            keys == SortStrings(DOMAIN m.Parameters)
            done == Len(Attempted)
            prior == RelOf(pg_class, m)
        IN  /\ done + Len(keysleft) = Len(keys)
            /\ keysleft = SubSeq(keys, done + 1, Len(keys))
            /\ \A i \in 1..done : Attempted[i].Setting = keys[i]
            /\ ~dryrun =>
                 \A p \in ApplyParams :
                    CurrentSetting([reloptions |-> txopts], p)
                      = IF SucceededSoFar(p) THEN m.Parameters[p].NewSetting
                        ELSE CurrentSetting(prior, p)

\* three deltas: the first failed, the second succeeded, the third failed
ParameterIsolationWitness ==
    /\ txstate = "locked" /\ ~dryrun /\ keysleft = <<>>
    /\ Attempted = << [Setting |-> "autovacuum_enabled", Success |-> FALSE],
                      [Setting |-> "fillfactor", Success |-> TRUE],
                      [Setting |-> "user_catalog_table", Success |-> FALSE] >>
    /\ CurrentSetting([reloptions |-> txopts], "fillfactor") = Some("80")
    /\ CurrentSetting([reloptions |-> txopts], "user_catalog_table") = Nil

SucceededIn(r, p) ==
    \E i \in DOMAIN r.SettingSuccess : r.SettingSuccess[i] = [Setting |-> p, Success |-> TRUE]

FailedIn(r, p) ==
    \E i \in DOMAIN r.SettingSuccess : r.SettingSuccess[i] = [Setting |-> p, Success |-> FALSE]

\* C13: once the lock is held the call goes on to the commit whatever the
\* parameters did, and after the commit the table has its prior parameters with
\* exactly the succeeded deltas applied: new value for a set, unset for a reset,
\* the old value for a failed one.
CommitKeepsSucceededDeltas ==
    /\ (txstate = "locked" /\ ~dryrun) =>
          \A p \in DOMAIN cur[1].Parameters :
             CurrentSetting(RelOf(pg_class, cur[1]), p) = cur[1].Parameters[p].OldSetting
    /\ ~dryrun =>
          \A r \in results : r.Err = "none" =>
             /\ \A p \in DOMAIN r.Match.Parameters : SucceededIn(r, p) \/ FailedIn(r, p)
             /\ \A p \in ApplyParams :
                  CurrentSetting(RelOf(pg_class, r.Match), p)
                    = IF SucceededIn(r, p) THEN r.Match.Parameters[p].NewSetting
                      ELSE CurrentSetting(RelOf(pg_class0, r.Match), p)

\* a committed call in which one set succeeded and the other two deltas failed
CommitKeepsSucceededDeltasWitness ==
    /\ ~dryrun
    /\ \E r \in results :
        /\ r.Err = "none"
        /\ DOMAIN r.Match.Parameters = {"autovacuum_enabled", "fillfactor", "vacuum_truncate"}
        /\ FailedIn(r, "autovacuum_enabled") /\ FailedIn(r, "vacuum_truncate")
        /\ SucceededIn(r, "fillfactor")
        /\ r.Match.Parameters["fillfactor"] = [OldSetting |-> Some("90"), NewSetting |-> Some("80")]
        /\ CurrentSetting(RelOf(pg_class, r.Match), "fillfactor") = Some("80")
        /\ CurrentSetting(RelOf(pg_class, r.Match), "vacuum_truncate") = Some("90")

\* C14: a call whose lock statement failed, at once or by the lock timeout, was
\* rolled back: the table has the parameters it had before, and the result of
\* the call reports no parameter as applied.
LockFailureLeavesTable ==
    /\ \A r \in results : IsAcquireLockError(r.Err) =>
          /\ RelOf(pg_class, r.Match) = RelOf(pg_class0, r.Match)
          /\ \A i \in DOMAIN r.SettingSuccess : ~r.SettingSuccess[i].Success
    /\ (cur = Nil) => (txstate = "none" /\ locktimeout = Nil)

\* the wait for the lock on a table with two deltas ran into the lock timeout
LockFailureLeavesTableWitness ==
    /\ ~dryrun
    /\ txstate = "none"
    /\ \E r \in results :
        /\ r.Err = "AcquireLockError (wait timed out)"
        /\ DOMAIN r.Match.Parameters = {"fillfactor", "user_catalog_table"}
        /\ RelOf(pg_class, r.Match).reloptions = ApplyParams \X {"90"}

\* C15 as claimed: in a run started with --dry-run no table has its alter table
\* statements executed, in either pass.
DryRunAltersNothing ==
    (sched # Nil /\ dryrun) => \A t \in DOMAIN sched.altered : ~sched.altered[t]

\* C16: in a run whose calls are made in nowait mode, the lock statement of a
\* call carries the nowait suffix and no lock_timeout is set for it, so the
\* statement is answered at once; a call that did not get the lock returns
\* AcquireLockError, never the timed-out error, the scheduler's test tells it
\* from any other error, and the run ends with status 1 only when some call
\* returned an error that is not a lock error.
NowaitCalls == \A cm \in callmodes : cm[1] = WaitModeNowait

NowaitNeverWaits ==
    NowaitCalls =>
        /\ cur # Nil => locksql.nowait /\ locktimeout = Nil /\ waitmode = WaitModeNowait
        /\ \A r \in results : r.Err # "AcquireLockError (wait timed out)"
        /\ \A r \in results : IsAcquireLockError(r.Err) <=> r.Err = "AcquireLockError"
        /\ exitcode = Some(1) => \E r \in results : r.Err = "error"
        /\ (~displaymode /\ \A r \in results : r.Err \in {"none", "AcquireLockError"})
               => pc # "exit"

\* a nowait run in which one table's lock was not available and a later table
\* was locked and altered, and the run ended with status 0
NowaitNeverWaitsWitness ==
    /\ NowaitCalls
    /\ ~displaymode
    /\ \E r \in results : r.Err = "AcquireLockError"
    /\ \E r \in results : r.Err = "none"
    /\ pc = "applied"
    /\ exitcode = Some(0)

\* C17: in a run whose calls are made in wait mode with the timeout -1, no
\* lock_timeout is set in any transaction, the lock statement is sent without
\* nowait, and no call returns a lock error: the only ways out of the lock
\* statement are the lock and an error that is not a lock error.
WaitCallsWithoutTimeout == callmodes = {<<WaitModeWait, -1>>}

TimedWaitCalls == \A cm \in callmodes : cm[1] = WaitModeWait /\ cm[2] > 0

TimedOut == "AcquireLockError (wait timed out)"

TimedOutCallReturns ==
    /\ [](TimedWaitCalls =>
            /\ (cur # Nil /\ txstate = "open") =>
                   /\ locktimeout = Some(timeout)
                   /\ "lock_timeout" \in LockAnswers(locksql, locktimeout)
                   /\ LockError("lock_timeout") = TimedOut
            /\ \A r \in results : r.Err # "AcquireLockError"
            /\ IsAcquireLockError(TimedOut)
            /\ (\A r \in results : r.Err \in {"none", TimedOut}) => exitcode # Some(1)
            /\ (~displaymode /\ pc = "matched" /\ cur = Nil /\ pending # {})
                   => ENABLED UpdateTableOptionsBegin)
    /\ [][(TimedWaitCalls /\ \E r \in results' \ results : r.Err = TimedOut) =>
            /\ txstate = "open" /\ txstate' = "none"
            /\ cur' = Nil
            /\ locktimeout' = Nil
            /\ pc' = "matched"
            /\ UNCHANGED <<pg_class, pending, exitcode>>]_vars
    /\ (TimedWaitCalls /\ txstate = "open") ~> (txstate # "open")

\* the first table's lock wait timed out, and the same connection then locked
\* and altered the second table, and the run ended with status 0
TimedOutCallReturnsWitness ==
    /\ TimedWaitCalls
    /\ ~dryrun
    /\ \E r \in results : r.Err = TimedOut
    /\ \E r \in results : r.Err = "none" /\ \E i \in DOMAIN r.SettingSuccess :
                                                r.SettingSuccess[i].Success
    /\ pc = "applied"
    /\ exitcode = Some(0)

\* C19: with --skip-locked, a table whose nowait call returned a lock error has
\* its result and a warning printed in the step that handled the error and is
\* not sent to the collector: no worker is ever about to send, lockpending and
\* the list main receives stay empty, the second pass is not started, every
\* table has at most one call and that call is a first-pass call, so the lock
\* timeout is passed to no call and no call returns the timed-out error.
SkipLockedAbandons ==
    (sched # Nil /\ sched.skiplocked) =>
        /\ sched.lockpending = <<>>
        /\ sched.mainpending = <<>>
        /\ sched.phase = 1
        /\ \A w \in DOMAIN sched.workers : sched.workers[w].state # "send"
        /\ \A t \in DOMAIN sched.calls :
            /\ Len(sched.calls[t]) <= 1
            /\ CallsIn(t, 2) = <<>>
            /\ \A i \in DOMAIN sched.calls[t] : sched.calls[t][i][2] # TimedOut
            /\ LockFailedIn(t, 1) => sched.reported[t] = {"result", "warn"}

\* a run with --skip-locked and --lock-timeout in which every table's lock
\* failed and which ended with status 0 after the first pass
SkipLockedAbandonsWitness ==
    /\ sched # Nil
    /\ sched.skiplocked
    /\ sched.locktimeout > 0
    /\ DOMAIN sched.calls = 1..MaxTables
    /\ \A t \in DOMAIN sched.calls : LockFailedIn(t, 1)
    /\ sched.exit = Some(0)

\* C20: an alter table statement that fails leaves its call going with the
\* next parameter, in the same transaction, and the run as it was; a call that
\* returns a lock error, immediate or timed out, changes no table and leaves
\* the run going with the tables still pending; a call that returns any other
\* error ends the run with status 1, and nothing is done after that; and the
\* run has status 1 only after such an error.
LockErrors == {"AcquireLockError", TimedOut}

FatalErrors(rs) == { r \in rs : r.Err # "none" /\ r.Err \notin LockErrors }

ErrorPropagation ==
    /\ [](~displaymode =>
            /\ exitcode = Some(1) <=> FatalErrors(results) # {}
            /\ pc = "exit" <=> FatalErrors(results) # {})
    /\ [][(txstate = "locked" /\ Len(result') = Len(result) + 1
                                /\ ~result'[Len(result')].Success) =>
            /\ cur' = cur /\ cur # Nil
            /\ txstate' = "locked"
            /\ keysleft' = Tail(keysleft)
            /\ UNCHANGED <<pc, exitcode, pending, results, pg_class>>]_vars
    /\ [][(\E r \in results' \ results : r.Err \in LockErrors) =>
            /\ cur' = Nil
            /\ UNCHANGED <<pc, exitcode, pending, pg_class>>
            /\ results \subseteq results']_vars
    /\ [][(FatalErrors(results') # FatalErrors(results)) =>
            pc' = "exit" /\ exitcode' = Some(1)]_vars
    /\ [][pc # "exit"]_vars

\* a run in which one table's call returned a lock error and the other table's
\* call had one parameter fail and one succeed, and which ended with status 0
ErrorPropagationWitness ==
    /\ ~displaymode
    /\ \E r \in results : r.Err \in LockErrors
    /\ \E r \in results :
        /\ r.Err = "none"
        /\ \E i, j \in DOMAIN r.SettingSuccess :
            /\ r.SettingSuccess[i].Setting # "" /\ ~r.SettingSuccess[i].Success
            /\ r.SettingSuccess[j].Success
    /\ pc = "applied"
    /\ exitcode = Some(0)

(***************************************************************************)
(* Properties of the exit status                                           *)
(***************************************************************************)
\* tables the run gave up on because their lock could not be had
NotLocked == { t \in DOMAIN sched.calls : TableState(t) \in {"SkippedLocked", "LockFailed"} }

\* C21 as claimed: the exit status of a run that applied every table differs
\* from that of a run in which some table could not be locked; a run that
\* applied every table ends with status 0, so a run with status 0 has no table
\* that was skipped or timed out.
ExitStatusTellsLockFailures ==
    (sched # Nil /\ sched.exit = Some(0)) => NotLocked = {}

\* C22: a run ends with status 1 exactly when a call returned an error that is
\* not a lock error, and main ends a run with status 0 whether or not tables
\* were skipped in the first pass or timed out in the second.
LockFailuresExitZero ==
    sched # Nil =>
        /\ sched.exit \in {Nil, Some(0), Some(1)}
        /\ sched.exit = Some(1) <=>
               \E t \in DOMAIN sched.calls : \E i \in DOMAIN sched.calls[t] :
                   sched.calls[t][i][2] \notin {"none"} \cup LockErrors
        /\ (sched.mainpc = "stats" /\ sched.exit = Nil) => ENABLED MainExit
        /\ (sched.exit = Some(0) /\ sched.skiplocked) => sched.phase = 1
        /\ (sched.exit = Some(0) /\ NotLocked # {} /\ ~sched.skiplocked) => sched.phase = 2

\* a run without --skip-locked that ended with status 0 after a table's wait
\* for its lock timed out
LockFailuresExitZeroWitness ==
    /\ sched # Nil
    /\ ~sched.skiplocked
    /\ sched.exit = Some(0)
    /\ \E t \in NotLocked : sched.calls[t][2] = <<2, TimedOut>>

(***************************************************************************)
(* Properties of the connections and their workers                         *)
(***************************************************************************)
\* K, the number of table matches of the run
NumMatches == Len(sched.calls)

\* C23 as claimed: the first pass has min(J, K) workers, for K >= 0 too, and so
\* never more workers than table matches.
WorkersAreMinJobsMatches ==
    (sched # Nil /\ sched.phase = 1) =>
        /\ Len(sched.workers) = Min({sched.jobs, NumMatches})
        /\ Len(sched.workers) <= NumMatches

\* C23, amended: the first pass has min(J, K) workers when there is a table
\* match, and the one worker of the connection main already holds when there
\* is none; there are never more workers than jobs, and never more than table
\* matches unless there is no table match.
WorkersAreMinJobsMatchesOrOne ==
    (sched # Nil /\ sched.phase = 1) =>
        /\ NumMatches >= 1 => Len(sched.workers) = Min({sched.jobs, NumMatches})
        /\ NumMatches = 0 => Len(sched.workers) = 1
        /\ Len(sched.workers) <= sched.jobs
        /\ NumMatches >= 1 => Len(sched.workers) <= NumMatches

\* one table match and two jobs: the only worker has the table
WorkersAreMinJobsMatchesOrOneWitness ==
    /\ sched # Nil
    /\ sched.phase = 1
    /\ NumMatches = 1
    /\ sched.jobs = MaxJobs
    /\ Len(sched.workers) = 1
    /\ sched.workers[1].state = "update"

\* N, the number of connections of the first pass, and P, the number of tables
\* main received from the collector
NumConnections == Len(sched.closes)

NumPending == Len(sched.mainpending)

\* C24: the second pass has min(N, P) workers, on the first min(N, P)
\* connections; the connections after those have had Close() called once, when
\* the second pass was started, and never again; a connection a worker of the
\* second pass runs on has not been closed before that worker closes it, once.
ExcessConnectionsClosedOnce ==
    (sched # Nil /\ sched.phase = 2) =>
        /\ Len(sched.workers) = Min({NumConnections, NumPending})
        /\ \A c \in 1..NumConnections :
            /\ c > Len(sched.workers) => sched.closes[c] = 1
            /\ c <= Len(sched.workers) =>
                   sched.closes[c] = (IF sched.workers[c].state = "connclosed" THEN 1 ELSE 0)

\* three tables and two jobs: one table was left for the second pass, the second
\* connection was closed between the passes and the first one's worker has a table
ExcessConnectionsClosedOnceWitness ==
    /\ sched # Nil
    /\ sched.phase = 2
    /\ NumConnections = 2
    /\ NumPending = 1
    /\ sched.closes = <<0, 1>>
    /\ sched.workers[1].state = "update"

\* the workers that have a call in flight on connection c
InFlight(c) ==
    { w \in DOMAIN sched.workers : sched.connof[w] = c /\ sched.workers[w].state = "update" }

\* C25: every worker runs on a connection of the pool, no two workers of a pass
\* run on the same connection, at most one call is in flight on a connection,
\* and the workers of the second pass are started only when every worker of the
\* first pass has left its loop.
WorkersOwnConnections ==
    /\ [](sched # Nil =>
            /\ DOMAIN sched.connof = DOMAIN sched.workers
            /\ \A w \in DOMAIN sched.workers : sched.connof[w] \in 1..NumConnections
            /\ \A w1, w2 \in DOMAIN sched.workers :
                   sched.connof[w1] = sched.connof[w2] => w1 = w2
            /\ \A c \in 1..NumConnections : Cardinality(InFlight(c)) <= 1)
    /\ [][(sched # Nil /\ sched.phase' # sched.phase) =>
            \A w \in DOMAIN sched.workers : sched.workers[w].state = "closed"]_vars

\* two workers of the second pass, each with a call in flight on its connection
WorkersOwnConnectionsWitness ==
    /\ sched # Nil
    /\ sched.phase = 2
    /\ Len(sched.workers) = 2
    /\ InFlight(1) = {1}
    /\ InFlight(2) = {2}

(***************************************************************************)
(* Properties of the workers' loops                                        *)
(***************************************************************************)
\* the number of entries of the results in rs: all of them, those with Success,
\* those without
RECURSIVE EntriesOf(_, _)
EntriesOf(rs, which) ==
    IF rs = {} THEN 0
    ELSE LET r == CHOOSE x \in rs : TRUE
             counted == { i \in DOMAIN r.SettingSuccess :
                            \/ which = "all"
                            \/ which = "set" /\ r.SettingSuccess[i].Success
                            \/ which = "errored" /\ ~r.SettingSuccess[i].Success }
         IN  Cardinality(counted) + EntriesOf(rs \ {r}, which)

\* the counters as they should be after UpdateFromResult has had the results rs
TotalsOf(rs) ==
    [ParametersAttempted |-> EntriesOf(rs, "all"),
     ParametersSet |-> EntriesOf(rs, "set"),
     ParametersErrored |-> EntriesOf(rs, "errored")]

\* the workers inside UpdateFromResult
InUpdateFromResult ==
    { w \in DOMAIN workerloop.pc : workerloop.pc[w] \in {"statsread", "statswrite", "statsoutcome"} }

\* C26: at most one worker is inside UpdateFromResult, and it holds the mutex;
\* whenever no worker is inside, the counters are the totals over the results
\* passed so far; OutputStats reads the counters only when every worker has
\* closed its donechan, and prints the totals over the results of all calls.
StatsUpdatesNotLost ==
    workerloop # Nil =>
        /\ Cardinality(InUpdateFromResult) <= 1
        /\ \A w \in InUpdateFromResult : workerloop.accessLock = w
        /\ InUpdateFromResult = {} =>
               /\ workerloop.accessLock = 0
               /\ workerloop.stats = TotalsOf(workerloop.passed)
        /\ workerloop.summary # Nil =>
               /\ \A w \in DOMAIN workerloop.pc : workerloop.pc[w] = "closed"
               /\ Cardinality(workerloop.passed) = Len(workerloop.pc)
               /\ workerloop.summary[1].ParametersSet =
                      TotalsOf(workerloop.passed).ParametersSet
               /\ workerloop.summary[1].ParametersErrored =
                      TotalsOf(workerloop.passed).ParametersErrored

\* a worker is between reading and writing the counters while another worker
\* has its result ready and waits for the mutex
StatsUpdatesNotLostWitness ==
    /\ workerloop # Nil
    /\ \E w1, w2 \in DOMAIN workerloop.pc :
        /\ workerloop.pc[w1] = "statswrite"
        /\ workerloop.pc[w2] = "stats"
        /\ workerloop.cur[w2][1].Err = "none"

\* the lines of a table's result as OutputResult writes them
ResultLine(l) == l.kind \in {"header", "set", "failed"}

\* C27 as claimed: between two lines of one table's result no other worker has
\* written a line.
ResultLinesNotInterleaved ==
    workerloop # Nil =>
        \A i, j \in DOMAIN workerloop.out :
            (/\ i < j
             /\ ResultLine(workerloop.out[i]) /\ ResultLine(workerloop.out[j])
             /\ workerloop.out[i].table = workerloop.out[j].table)
            => \A k \in i..j : workerloop.out[k].by = workerloop.out[i].by

\* the deltas of a result: its entries for the parameters of the match
Deltas(r) == { i \in DOMAIN r.SettingSuccess : r.SettingSuccess[i].Setting \in DOMAIN r.Match.Parameters }

FailedDeltas(r) == { i \in Deltas(r) : ~r.SettingSuccess[i].Success }

\* a line that is printed without --verbose
Visible(l) == l.level \in {"info", "warn"}

\* every result that has had its output and has a failed delta has its header
\* and a line for each failed delta among the visible lines
FailedDeltasVisible ==
    \A r \in workerloop.passed :
        (r.Err = "none" /\ FailedDeltas(r) # {}) =>
            /\ \E i \in DOMAIN workerloop.out :
                   LET l == workerloop.out[i]
                   IN  l.table = r.Match.Reloid /\ l.kind = "header" /\ Visible(l)
            /\ \A d \in FailedDeltas(r) :
                   \E i \in DOMAIN workerloop.out :
                       LET l == workerloop.out[i]
                       IN  /\ l.table = r.Match.Reloid /\ l.kind = "failed" /\ Visible(l)
                           /\ l.setting = r.SettingSuccess[d].Setting

\* no result whose deltas all succeeded has a visible line
SucceededOnlyVerbose ==
    \A r \in workerloop.passed :
        (r.Err = "none" /\ FailedDeltas(r) = {}) =>
            \A i \in DOMAIN workerloop.out :
                workerloop.out[i].table = r.Match.Reloid => ~Visible(workerloop.out[i])

\* C28 as claimed: a table that was locked and has a failed delta is reported
\* with its header and its failed parameters in lines printed without
\* --verbose, in either pass, and a table whose deltas all succeeded has only
\* lines that need --verbose.
FailuresVisibleSuccessesVerbose ==
    workerloop # Nil => (FailedDeltasVisible /\ SucceededOnlyVerbose)

\* the part of C28 that is about failures, at any point of a pass
FailuresNeverSilent == workerloop # Nil => FailedDeltasVisible

\* the waiting-for-lock warnings written for a table
WaitWarnings(t) ==
    { i \in DOMAIN workerloop.out :
          workerloop.out[i].kind = "waiting" /\ workerloop.out[i].table = t }

\* a call's watchdog writes its warning at most once
WaitWarningAtMostOnce ==
    workerloop # Nil =>
        \A t \in DOMAIN workerloop.timer : Cardinality(WaitWarnings(t)) <= 1

\* a warning is written only after the timer of its watchdog has fired
WaitWarningAfterTimer ==
    workerloop # Nil =>
        \A t \in DOMAIN workerloop.timer :
            WaitWarnings(t) # {} => workerloop.timer[t] = "off"

\* C29 as claimed: the watchdog of a waiting call writes its warning at most
\* once and only while the lock attempt is outstanding; once the lock attempt has
\* succeeded or failed it writes nothing.
WatchdogSilentOnceLockOver ==
    workerloop # Nil =>
        \A t \in DOMAIN workerloop.timer :
            /\ Cardinality(WaitWarnings(t)) <= 1
            /\ \A i \in WaitWarnings(t) : ~workerloop.out[i].lockover

(***************************************************************************)
(* Properties of the cancelling timeout goroutine                          *)
(***************************************************************************)
\* the goroutine ends only once the lock statement is known to have returned
TaskEndsAfterLockdone ==
    lockcall.grdone => lockcall.lockdone

\* while the timeout has passed and lockdone is open, the goroutine is sending
\* a cancel request, or waiting its 100 ms to send the next
TaskKeepsCancelling ==
    (lockcall.expired /\ ~lockcall.lockdone) =>
        (lockcall.gpc = "inner" \/ ENABLED TimeoutTaskCancel)

\* the worker is past <-grdone only when the goroutine has ended
WorkerWaitsForTask ==
    lockcall.wpc \in {"next", "returned"} => lockcall.grdone

\* C30: once the timeout has passed the goroutine sends cancel requests again
\* and again, looking at lockdone in between, until the lock statement has
\* returned; the worker sends no further statement before the goroutine has
\* ended, so no cancel request is sent after the worker went on and none ends a
\* later statement of the connection.
CancelTaskJoinedBeforeNextStatement ==
    lockcall # Nil =>
        /\ TaskEndsAfterLockdone
        /\ TaskKeepsCancelling
        /\ WorkerWaitsForTask
        /\ ~lockcall.sentafter
        /\ ~lockcall.hitlater

\* a call whose lock statement was ended by the second or a later cancel
\* request has returned
CancelTaskJoinedBeforeNextStatementWitness ==
    /\ lockcall # Nil
    /\ lockcall.wpc = "returned"
    /\ lockcall.err = "canceled"
    /\ lockcall.cancels >= 2
    /\ lockcall.grdone

(***************************************************************************)
(* Properties of the order within a table                                  *)
(***************************************************************************)
\* the outcomes of a list that name a parameter, in the order of the list
RECURSIVE NamedOutcomes(_)
NamedOutcomes(ss) ==
    IF ss = <<>> THEN <<>>
    ELSE IF Head(ss).Setting = "" THEN NamedOutcomes(Tail(ss))
    ELSE <<Head(ss).Setting>> \o NamedOutcomes(Tail(ss))

\* every name of the sequence is below the names after it, in byte order
Ascending(names) ==
    \A i, j \in DOMAIN names : i < j => StringLess(names[i], names[j])

\* C31: within a table the parameters are altered in ascending byte order of
\* their names and the outcomes are recorded in that order: at every point of
\* a call the recorded names followed by the names still to go are the
\* parameters of the table in ascending order, and so are the names of every
\* result that was returned after the lock was held.
DeltasInNameOrder ==
    /\ (cur # Nil /\ txstate = "locked") =>
          /\ Ascending(NamedOutcomes(result) \o keysleft)
          /\ { (NamedOutcomes(result) \o keysleft)[i] :
                 i \in 1..Len(NamedOutcomes(result) \o keysleft) } = DOMAIN cur[1].Parameters
    /\ \A r \in results :
          r.Err = "none" =>
              /\ Ascending(NamedOutcomes(r.SettingSuccess))
              /\ { NamedOutcomes(r.SettingSuccess)[i] :
                     i \in 1..Len(NamedOutcomes(r.SettingSuccess)) } = DOMAIN r.Match.Parameters

\* a table with three parameters or more has been altered and its result returned
DeltasInNameOrderWitness ==
    \E r \in results :
        /\ r.Err = "none"
        /\ Len(NamedOutcomes(r.SettingSuccess)) >= 3
        /\ "toast.autovacuum_enabled" \in DOMAIN r.Match.Parameters
        /\ \E i \in DOMAIN r.SettingSuccess : ~r.SettingSuccess[i].Success

(***************************************************************************)
(* Properties of the work queues                                           *)
(***************************************************************************)
\* where table t is in the pass that is running: still to be sent, received by
\* a worker that has not made its call yet, or called
StillQueued(t) == { i \in DOMAIN sched.queue : sched.queue[i] = t }

ReceivedBy(t) ==
    { w \in DOMAIN sched.workers :
        sched.workers[w].state = "update" /\ sched.workers[w].m = t }

HandedOut(t) ==
    Cardinality(StillQueued(t)) + Cardinality(ReceivedBy(t)) + Len(CallsIn(t, sched.phase))

\* C32: every table match is handed to exactly one worker in the first pass and
\* every pending one to exactly one worker in the second: a table is in one
\* place only (the queue, a worker, or called once) unless log.Fatal has ended
\* the run, it is never called twice in a pass, a table that is not pending is
\* nowhere in the second pass, and no two workers have the same table at the
\* same time.
EachTableToOneWorker ==
    sched # Nil =>
        /\ \A t \in DOMAIN sched.calls :
             /\ Len(CallsIn(t, 1)) <= 1 /\ Len(CallsIn(t, 2)) <= 1
             /\ (sched.phase = 1 /\ sched.exit # Some(1)) => HandedOut(t) = 1
             /\ (sched.phase = 2 /\ sched.exit # Some(1)) =>
                  /\ Len(CallsIn(t, 1)) = 1
                  /\ HandedOut(t) =
                       (IF \E i \in DOMAIN sched.mainpending : sched.mainpending[i] = t
                        THEN 1 ELSE 0)
        /\ \A w1, w2 \in DOMAIN sched.workers :
             (w1 # w2 /\ sched.workers[w1].m # 0) =>
                 sched.workers[w1].m # sched.workers[w2].m

\* in the second pass two workers are about to call, each for its own table,
\* and both tables were called once in the first pass
EachTableToOneWorkerWitness ==
    /\ sched # Nil
    /\ sched.phase = 2
    /\ \E w1, w2 \in DOMAIN sched.workers :
         /\ w1 # w2
         /\ sched.workers[w1].state = "update"
         /\ sched.workers[w2].state = "update"
         /\ sched.workers[w1].m # sched.workers[w2].m

(***************************************************************************)
(* Properties of the step from the first pass to the second                *)
(***************************************************************************)
\* the tables main received as pending
MainPending == { sched.mainpending[i] : i \in DOMAIN sched.mainpending }

\* main is past the loop over the donechans of the first pass
PastFirstBarrier ==
    \/ sched.phase = 2
    \/ sched.rcvclosed
    \/ sched.mainpc \in {"closercv", "recvpending", "branch"}

\* C33: lockpendingrcv is closed and lockpending is read only after every
\* worker of the first pass has closed its donechan: no worker is at its send
\* when the channel is closed, the list main reads has every table whose
\* nowait call failed on the lock, and when the second pass runs every nowait
\* call has returned.
PhaseBarrier ==
    (sched # Nil /\ sched.exit # Some(1)) =>
        /\ (sched.phase = 1 /\ PastFirstBarrier) =>
               \A w \in DOMAIN sched.workers : sched.workers[w].state = "closed"
        /\ sched.rcvclosed =>
               \A w \in DOMAIN sched.workers : sched.workers[w].state # "send"
        /\ (sched.mainpc = "branch" \/ sched.phase = 2) =>
               /\ \A t \in DOMAIN sched.calls : Len(CallsIn(t, 1)) = 1
               /\ MainPending =
                    { t \in DOMAIN sched.calls : ~sched.skiplocked /\ LockFailedIn(t, 1) }
        /\ \A t \in DOMAIN sched.calls :
               CallsIn(t, 2) # <<>> => \A u \in DOMAIN sched.calls : Len(CallsIn(u, 1)) = 1

\* a wait call of the second pass is about to be made, with two tables pending
PhaseBarrierWitness ==
    /\ sched # Nil
    /\ sched.exit = Nil
    /\ sched.phase = 2
    /\ Cardinality(MainPending) >= 2
    /\ Cardinality(DOMAIN sched.calls) > Cardinality(MainPending)
    /\ \E w \in DOMAIN sched.workers : sched.workers[w].state = "update"

(***************************************************************************)
(* Properties of the run statistics                                        *)
(***************************************************************************)
\* ParametersAttempted = ParametersSet + ParametersErrored
CountersAddUp(c) == c.ParametersAttempted = c.ParametersSet + c.ParametersErrored

\* no counter goes down in a step
CountersGrow ==
    /\ workerloop'.stats.ParametersAttempted >= workerloop.stats.ParametersAttempted
    /\ workerloop'.stats.ParametersSet >= workerloop.stats.ParametersSet
    /\ workerloop'.stats.ParametersErrored >= workerloop.stats.ParametersErrored

\* C34 as claimed: in every state ParametersAttempted is the sum of
\* ParametersSet and ParametersErrored, and no counter ever decreases.
CountersAddUpInEveryState ==
    /\ [](workerloop # Nil => CountersAddUp(workerloop.stats))
    /\ [][workerloop # Nil => CountersGrow]_vars

\* C34 amended: whenever no worker is inside UpdateFromResult, so whenever the
\* mutex is free and when OutputStats reads the counters, ParametersAttempted is
\* the sum of ParametersSet and ParametersErrored; inside UpdateFromResult it is
\* the sum or one more; and no counter ever decreases.
CountersAddUpOutsideUpdate ==
    /\ [](workerloop # Nil =>
            /\ InUpdateFromResult = {} => CountersAddUp(workerloop.stats)
            /\ workerloop.stats.ParametersAttempted - (workerloop.stats.ParametersSet
                   + workerloop.stats.ParametersErrored) \in {0, 1})
    /\ [][workerloop # Nil => CountersGrow]_vars

\* results with entries of both outcomes have been counted and nobody is inside
\* UpdateFromResult
CountersAddUpOutsideUpdateWitness ==
    /\ workerloop # Nil
    /\ InUpdateFromResult = {}
    /\ workerloop.stats.ParametersSet >= 1
    /\ workerloop.stats.ParametersErrored >= 2
    /\ Cardinality(workerloop.passed) >= 2

\* for range val.Parameters { runstats.ParametersMatched++ } over the matches ms
RECURSIVE ParametersOf(_)
ParametersOf(ms) ==
    IF ms = {} THEN 0
    ELSE LET m == CHOOSE x \in ms : TRUE
         IN  Cardinality(DOMAIN m.Parameters) + ParametersOf(ms \ {m})

\* runstats.ParametersMatched after main has populated the run statistics
ParametersMatched == ParametersOf(tablematches)

\* C35 as claimed: every delta is counted as attempted at most once: results
\* that came with a lock error add nothing to the counters, and
\* ParametersAttempted never exceeds ParametersMatched.
AttemptedAtMostMatched ==
    workerloop # Nil =>
        /\ workerloop.stats.ParametersAttempted <= ParametersMatched
        /\ (\A r \in workerloop.passed : r.Err # "none") =>
               /\ workerloop.stats.ParametersAttempted = 0
               /\ workerloop.stats.ParametersErrored = 0

(***************************************************************************)
(* Properties of the outcome list                                          *)
(***************************************************************************)
\* C36 as claimed: a result returned after the lock was held has exactly one
\* entry for every delta, each naming its parameter, and when every delta was
\* set it has no entry with Success = FALSE.
OneOutcomePerDelta ==
    \A r \in results :
        r.Err = "none" =>
            /\ Len(r.SettingSuccess) = Cardinality(DOMAIN r.Match.Parameters)
            /\ \A i \in DOMAIN r.SettingSuccess :
                   r.SettingSuccess[i].Setting \in DOMAIN r.Match.Parameters
            /\ FailedDeltas(r) = {} =>
                   \A i \in DOMAIN r.SettingSuccess : r.SettingSuccess[i].Success

(***************************************************************************)
(* Properties of the end of the second pass                                *)
(***************************************************************************)
\* C37 as claimed: when main exits at the end of the second pass, every worker
\* of that pass has closed its connection.
ConnectionsClosedBeforeExit ==
    (sched # Nil /\ sched.phase = 2 /\ sched.exit = Some(0)) =>
        \A w \in DOMAIN sched.workers :
            /\ sched.workers[w].state = "connclosed"
            /\ sched.closes[sched.connof[w]] = 1

(***************************************************************************)
(* Properties of the watchdog goroutines                                   *)
(***************************************************************************)
\* C38 as claimed: every watchdog goroutine that was started ends, whether its
\* select took waitctx.Done() or the timer, and none is left blocked once the
\* call it watches has returned.
WatchdogsTerminate ==
    /\ \A t \in 1..MaxJobs :
          (workerloop # Nil /\ t \in DOMAIN workerloop.wd /\ workerloop.wd[t] = "select")
              ~> (t \in DOMAIN workerloop.wd /\ workerloop.wd[t] = "done")
    /\ [](workerloop # Nil =>
            \A t \in DOMAIN workerloop.wd :
                ~(workerloop.waitctx[t] /\ workerloop.wd[t] = "blocked"))

(***************************************************************************)
(* Properties of the outer transaction                                     *)
(***************************************************************************)
\* C39: a parameter is altered only while the outer transaction holds the lock
\* on that table and the transaction goes on after it; whenever a call returns
\* its result the outer transaction has ended; and a table is taken up only
\* when no transaction is open, so no lock is held from one table to the next.
AlterOnlyUnderLock ==
    /\ [](txstate # "none" <=> cur # Nil)
    /\ [][(cur # Nil /\ cur' = cur /\ (result' # result \/ txopts' # txopts)
              /\ txstate # "open")
             => /\ txstate = "locked" /\ txstate' = "locked"
                /\ locksql.table = cur[1].QuotedFullName]_vars
    /\ [][(txopts' # txopts /\ txstate = "open") => (txstate' = "locked" /\ result' = result)]_vars
    /\ [][results' # results => (txstate' = "none" /\ cur' = Nil)]_vars
    /\ [][pending' # pending => txstate = "none"]_vars

\* a table is being altered under its lock after the call for another table
\* has returned
AlterOnlyUnderLockWitness ==
    /\ cur # Nil
    /\ txstate = "locked"
    /\ \E i \in DOMAIN result : result[i].Setting # ""
    /\ \E r \in results : r.Match.Reloid # cur[1].Reloid


====
